---------------------------- MODULE Spec2Model ----------------------------
(***************************************************************************)
(* Telephony back office (GavvlLaw/Telnyx): availability oracle, call      *)
(* router, voicemail recorder, SMS automation engine and the recording     *)
(* webhook, modelled from the JavaScript sources.                          *)
(*                                                                         *)
(* Instants are minutes since the epoch (a Date / moment value).  Strings  *)
(* that the code compares or searches character by character ("HH:mm"      *)
(* times, SMS texts, keywords) are sequences of characters; every other    *)
(* string (phone numbers, names, URLs) is an opaque TLA+ string.           *)
(***************************************************************************)
EXTENDS Integers, Sequences, FiniteSets, TLC

VARIABLES
    user,        \* the User document handed to telnyxService
    now,         \* the instant read by new Date() / moment()
    availResult, \* what isUserAvailable(user) returned, once it was called
    hic,         \* the invocation of telnyxService.handleIncomingCall for the call
    dtmf,        \* the call.gather.ended webhook of the call and its handleUnavailableDTMF
    commands,    \* the call-control commands issued so far (telnyxClient.calls.update)
    vmTimer,     \* the pending 1-second timer of sendToVoicemail
    automations, \* the SmsAutomation collection
    timers,      \* the armed timers of scheduleDelayedAction
    sent,        \* the messages handed to telnyxService.sendSMS by the engine
    fired,       \* the timer callbacks that ran: when, and whether the action was executed
    lastResult,  \* the last entry point of the engine: its input, what it returned and sent
    nEvents,     \* the number of entry-point invocations so far
    calls,       \* the Call collection
    voicemails,  \* the Voicemail collection
    recordings,  \* the call.recording.saved webhooks being handled
    hooks,       \* the requests in webhookController: position, responses, promises started
    tpl,         \* one call of processTemplate: the template, the context, what it returned
    smsLog,      \* the requests smsController.handleIncomingSMS has handled, with its answers
    smsStore,    \* the SMS collection
    replies,     \* the messages handed to telnyxService.sendSMS by smsController
    callLog,     \* the requests callController.handleIncomingCall has received
    syncs,       \* the invocations of calendarService.syncUserCalendar
    calMeta,     \* calendarIntegration.provider.type and calendarIntegration.lastSyncTime
    telnyxClient,\* the client instance of telnyxService: 0 at start, +1 per reinitializeClient
    lost,        \* the timers that were pending when the process restarted
    toggles      \* the answers of smsAutomationController.toggleAutomationStatus

routerVars == <<hic, dtmf, commands, vmTimer>>

autoVars == <<automations, timers, sent, fired, lastResult, nEvents>>

recVars == <<calls, voicemails, recordings>>

\* the variables of the controllers and of template rendering other than hooks
smsVars == <<smsLog, smsStore, replies>>

syncVars == <<syncs, calMeta>>

\* what lives in the memory of the process only
procVars == <<telnyxClient, lost>>

ctlVars == <<tpl, smsVars, callLog, syncVars, procVars, toggles>>

webVars == <<hooks, ctlVars>>

vars == <<user, now, availResult, hic, dtmf, commands, vmTimer, automations, timers, sent,
          fired, lastResult, nEvents, calls, voicemails, recordings, hooks, tpl,
          smsLog, smsStore, replies, callLog, syncs, calMeta, telnyxClient, lost,
          toggles>>

-----------------------------------------------------------------------------
(* Bounds of the model *)

\* index of the last sampled time of day
MaxTimeIdx == 2

\* number of entry-point invocations of the SMS automation engine
MaxEvents == 1

\* number of call.recording.saved webhooks delivered
MaxDeliveries == 2

\* webhook requests handled by webhookController
MaxHooks == 1

\* the days after the first one on which the scheduler may be invoked
MaxDays == 1

\* requests handled by smsController.handleIncomingSMS
MaxSms == 2

\* call webhooks received by callController.handleIncomingCall
MaxCallEvents == 2

\* invocations of calendarService.syncUserCalendar, which may overlap
MaxSyncs == 2

\* API-key updates that reach reinitializeClient
MaxReinits == 2

\* requests to PUT /automations/:id/toggle
MaxToggles == 2

-----------------------------------------------------------------------------
(* Time and string helpers *)

\* the character ':' of "HH:mm"; digits are 0..9, and ':' sorts after '9'
COLON == 10

MinutesPerDay == 24 * 60

\* the sampled times of day, as minutes after midnight: 00:00, 09:26, 18:52, ...
TimeOfDay(i) == (i * 566) % MinutesPerDay

TimesOfDay == {TimeOfDay(i) : i \in 0..MaxTimeIdx}

\* the instants the model reads the clock at (all on the epoch's first day)
Instants == TimesOfDay

Weekdays == <<"thursday", "friday", "saturday", "sunday", "monday", "tuesday", "wednesday">>

\* moment().format('dddd').toLowerCase()
FormatDay(t) == Weekdays[((t \div MinutesPerDay) % 7) + 1]

\* moment().format('HH:mm'): zero-padded 24-hour time
FormatHHmm(t) ==
    LET m == t % MinutesPerDay
        h == m \div 60
        mi == m % 60
    IN  <<h \div 10, h % 10, COLON, mi \div 10, mi % 10>>

\* the same time of day written without the leading zero ("9:26"), as a user may store it
FormatHmm(t) ==
    LET m == t % MinutesPerDay
        h == m \div 60
        mi == m % 60
    IN  IF h < 10 THEN <<h, COLON, mi \div 10, mi % 10>> ELSE FormatHHmm(t)

\* JavaScript's a <= b on strings: code unit by code unit, a prefix sorting first
StrLeq(a, b) ==
    \/ \E i \in 1..Len(a) :
          /\ i <= Len(b)
          /\ a[i] < b[i]
          /\ \A j \in 1..(i - 1) : a[j] = b[j]
    \/ /\ Len(a) <= Len(b)
       /\ \A j \in 1..Len(a) : a[j] = b[j]

Min(S) == CHOOSE x \in S : \A y \in S : x <= y

-----------------------------------------------------------------------------
(* Availability Oracle *)

\* mutant: a tentative event does not count as a meeting
isUserInMeeting_ConfirmedOnly(u, t) ==
    /\ u.calendarIntegration.enabled
    /\ u.calendarIntegration.makeUnavailableDuringEvents
    /\ \E i \in 1..Len(u.calendarIntegration.events) :
          LET event == u.calendarIntegration.events[i]
          IN  /\ event.status = "confirmed"
              /\ event.makeUnavailable
              /\ t >= event.startTime
              /\ t <= event.endTime

\* calendarService.isUserInMeeting(user)
isUserInMeeting(u, t) ==
    /\ u.calendarIntegration.enabled
    /\ u.calendarIntegration.makeUnavailableDuringEvents
    /\ \E i \in 1..Len(u.calendarIntegration.events) :
          LET event == u.calendarIntegration.events[i]
          IN  /\ event.status # "cancelled"
              /\ event.makeUnavailable
              /\ t >= event.startTime
              /\ t <= event.endTime

\* mutant: the end of the window is exclusive
withinAvailableHours_EndExclusive(dayAvailability, currentTime) ==
    /\ StrLeq(dayAvailability.startTime, currentTime)
    /\ StrLeq(currentTime, dayAvailability.endTime)
    /\ currentTime # dayAvailability.endTime

\* currentTime >= dayAvailability.startTime && currentTime <= dayAvailability.endTime
withinAvailableHours(dayAvailability, currentTime) ==
    /\ StrLeq(dayAvailability.startTime, currentTime)
    /\ StrLeq(currentTime, dayAvailability.endTime)

\* the indexes of the day-records user.availability.find(a => a.day === dayOfWeek) can return
dayRecordsFor(u, dayOfWeek) ==
    {i \in 1..Len(u.availability) : u.availability[i].day = dayOfWeek}

\* mutant: the isAvailable flag of the day-record is not consulted
isUserAvailable_IgnoresDayFlag(u, t) ==
    IF isUserInMeeting(u, t) THEN FALSE
    ELSE LET found == dayRecordsFor(u, FormatDay(t))
         IN  IF found = {} THEN FALSE
             ELSE withinAvailableHours(u.availability[Min(found)], FormatHHmm(t))

\* telnyxService.isUserAvailable(user)
isUserAvailable(u, t) ==
    IF isUserInMeeting(u, t) THEN FALSE
    ELSE LET found == dayRecordsFor(u, FormatDay(t))
         IN  IF found = {} THEN FALSE
             ELSE LET dayAvailability == u.availability[Min(found)]
                  IN  IF ~dayAvailability.isAvailable THEN FALSE
                      ELSE withinAvailableHours(dayAvailability, FormatHHmm(t))

-----------------------------------------------------------------------------
(* The users and clocks the oracle is evaluated on *)

\* startTime / endTime strings a day-record can hold
ScheduleTimes == {FormatHHmm(t) : t \in TimesOfDay} \cup {FormatHmm(t) : t \in TimesOfDay}

DayRecords ==
    [day : {"thursday", "friday"}, isAvailable : BOOLEAN,
     startTime : ScheduleTimes, endTime : ScheduleTimes]

CalendarEvents ==
    {e \in [status : {"confirmed", "tentative", "cancelled"}, makeUnavailable : BOOLEAN,
            startTime : Instants, endTime : Instants] : e.startTime <= e.endTime}

CalendarIntegrations ==
    [enabled : BOOLEAN, makeUnavailableDuringEvents : BOOLEAN,
     events : {<<>>} \cup {<<e>> : e \in CalendarEvents}]

\* the fields of a user that the router reads besides the schedule
DefaultRouting ==
    [name |-> <<"Ada", "Lovelace">>, phoneNumber |-> "+15550001",
     telnyxPhoneNumber |-> "+15551234567", routeToLiveAgent |-> FALSE,
     liveAgentNumber |-> "", voicemailGreetingUrl |-> "", voicemailGreeting |-> "greeting"]

MakeUser(availability, calendarIntegration, routing) ==
    [availability |-> availability, calendarIntegration |-> calendarIntegration,
     name |-> routing.name, phoneNumber |-> routing.phoneNumber,
     telnyxPhoneNumber |-> routing.telnyxPhoneNumber,
     routeToLiveAgent |-> routing.routeToLiveAgent,
     liveAgentNumber |-> routing.liveAgentNumber,
     voicemailGreetingUrl |-> routing.voicemailGreetingUrl,
     voicemailGreeting |-> routing.voicemailGreeting]

NoAvailResult == [called |-> FALSE, value |-> FALSE]

-----------------------------------------------------------------------------
(* Call Router and Voicemail Recorder (telnyxService) *)

\* Ring timeout in seconds before going to voicemail
RING_TIMEOUT_SECONDS == 15

\* timeout_secs of the DTMF gather
GATHER_TIMEOUT_SECONDS == 5

\* max_digits of the DTMF gather
GATHER_MAX_DIGITS == 1

CENTRAL_FORWARDING_NUMBER == "+18446942885"

UNAVAILABLE_PROMPT_URL == [kind |-> "prompt", file |-> <<"Unavailable">>]

\* one telnyxClient.calls.update(callControlId, {...}): the instance the module
\* variable telnyxClient holds at the call, the command and whether it resolved
Command(id, to, timeout, state, url, ok) ==
    [command_id |-> id, to |-> to, timeout_secs |-> timeout, max_digits |-> 0,
     client_state |-> state, audio_url |-> url, format |-> "", channels |-> "",
     play_beep |-> FALSE, ok |-> ok, client |-> telnyxClient]

NoUrl == [kind |-> "none", file |-> <<>>]

\* mutant: live-agent routing is tried before the user's own availability
chooseRoute_AgentFirst(isAvailable, u) ==
    IF u.routeToLiveAgent /\ u.liveAgentNumber # "" THEN "routed_to_agent"
    ELSE IF isAvailable THEN "forwarded"
    ELSE "unavailable_prompt"

\* the if / else if / else of handleIncomingCall
chooseRoute(isAvailable, u) ==
    IF isAvailable THEN "forwarded"
    ELSE IF u.routeToLiveAgent /\ u.liveAgentNumber # "" THEN "routed_to_agent"
    ELSE "unavailable_prompt"

HicIdle == [pc |-> "idle", isAvailable |-> FALSE, route |-> "", action |-> ""]

DtmfIdle ==
    [pc |-> "idle", digit |-> "", action |-> "", toVoicemail |-> FALSE, status |-> 0]

RouterIdle ==
    /\ hic = HicIdle
    /\ dtmf = DtmfIdle
    /\ commands = <<>>
    /\ vmTimer = FALSE

\* mutant: a rejected command does not end the invocation
awaited_IgnoresFailure(ok, next) == next

\* await of a command inside the try of handleIncomingCall: the next statement when
\* the command resolved, the catch block (which rethrows) when it was rejected
awaited(ok, next) == IF ok THEN next ELSE "threw"

\* handleIncomingCall: const isAvailable = this.isUserAvailable(user)
HIC_Begin ==
    /\ hic.pc = "idle"
    /\ LET isAvailable == isUserAvailable(user, now)
       IN  hic' = [hic EXCEPT !.pc = "answer", !.isAvailable = isAvailable,
                              !.route = chooseRoute(isAvailable, user)]
    /\ UNCHANGED <<user, webVars, now, availResult, dtmf, commands, vmTimer, autoVars, recVars>>

\* handleIncomingCall: await calls.update(.., {command_id: 'answer', ..})
HIC_Answer ==
    /\ hic.pc = "answer"
    /\ \E ok \in BOOLEAN :
          /\ commands' = Append(commands,
                Command("answer", "", 0,
                        IF hic.route = "unavailable_prompt" THEN "" ELSE "awaiting-transfer",
                        NoUrl, ok))
          /\ hic' = [hic EXCEPT !.pc =
                        awaited(ok, IF hic.route = "unavailable_prompt" THEN "play_prompt"
                                    ELSE "transfer")]
    /\ UNCHANGED <<user, webVars, now, availResult, dtmf, vmTimer, autoVars, recVars>>

\* handleIncomingCall: await calls.update(.., {command_id: 'transfer', ..}); return
HIC_Transfer ==
    /\ hic.pc = "transfer"
    /\ \E ok \in BOOLEAN :
          /\ commands' = Append(commands,
                Command("transfer",
                        IF hic.route = "forwarded" THEN user.phoneNumber
                        ELSE user.liveAgentNumber,
                        RING_TIMEOUT_SECONDS, "", NoUrl, ok))
          /\ hic' = IF ok THEN [hic EXCEPT !.pc = "returned", !.action = hic.route]
                    ELSE [hic EXCEPT !.pc = "threw"]
    /\ UNCHANGED <<user, webVars, now, availResult, dtmf, vmTimer, autoVars, recVars>>

\* handleIncomingCall: await calls.update(.., {command_id: 'play_audio', ..})
HIC_PlayPrompt ==
    /\ hic.pc = "play_prompt"
    /\ \E ok \in BOOLEAN :
          /\ commands' = Append(commands,
                Command("play_audio", "", 0, "gathering-input", UNAVAILABLE_PROMPT_URL, ok))
          /\ hic' = [hic EXCEPT !.pc = awaited(ok, "gather")]
    /\ UNCHANGED <<user, webVars, now, availResult, dtmf, vmTimer, autoVars, recVars>>

\* handleIncomingCall: await calls.update(.., {command_id: 'gather', ..}); return
HIC_Gather ==
    /\ hic.pc = "gather"
    /\ \E ok \in BOOLEAN :
          /\ commands' = Append(commands,
                [Command("gather", "", GATHER_TIMEOUT_SECONDS, "unavailable-flow", NoUrl, ok)
                    EXCEPT !.max_digits = GATHER_MAX_DIGITS])
          /\ hic' = IF ok THEN [hic EXCEPT !.pc = "returned", !.action = "unavailable_prompt"]
                    ELSE [hic EXCEPT !.pc = "threw"]
    /\ UNCHANGED <<user, webVars, now, availResult, dtmf, vmTimer, autoVars, recVars>>

\* the digit of a call.gather.ended payload: a key, or none on timeout
Digits == {"1", "2", "9", "#", "", "undefined"}

\* mutant: a digit other than '1' and '2', or no digit, forwards to the central number
dtmfBranch_DefaultCentral(digit) ==
    IF digit = "1" THEN "voicemail" ELSE "central"

\* handleUnavailableDTMF: switch (digit)
dtmfBranch(digit) ==
    IF digit = "1" THEN "voicemail"
    ELSE IF digit = "2" THEN "central"
    ELSE "voicemail"

\* webhookController.handleGatherEvent, up to the switch of handleUnavailableDTMF
GatherEnded ==
    /\ hic.pc = "returned"
    /\ hic.action = "unavailable_prompt"
    /\ dtmf.pc = "idle"
    /\ \E digit \in Digits, clientState \in {"unavailable-flow", "gathering-input"},
          toNumber \in {user.telnyxPhoneNumber, "+15559999999"} :
          dtmf' =
            IF clientState # "unavailable-flow" \/ toNumber # user.telnyxPhoneNumber
            THEN [dtmf EXCEPT !.pc = "ignored", !.digit = digit, !.status = 200]
            ELSE IF dtmfBranch(digit) = "central"
            THEN [dtmf EXCEPT !.pc = "transfer", !.digit = digit]
            ELSE [dtmf EXCEPT !.pc = "vm_play", !.digit = digit, !.toVoicemail = TRUE]
    /\ UNCHANGED <<user, webVars, now, availResult, hic, commands, vmTimer, autoVars, recVars>>

\* handleUnavailableDTMF, case '2': transfer to the central number; return
DTMF_Transfer ==
    /\ dtmf.pc = "transfer"
    /\ \E ok \in BOOLEAN :
          /\ commands' = Append(commands,
                Command("transfer", CENTRAL_FORWARDING_NUMBER, 0, "", NoUrl, ok))
          /\ dtmf' = IF ok THEN [dtmf EXCEPT !.pc = "returned",
                                             !.action = "forwarded_to_central", !.status = 200]
                     ELSE [dtmf EXCEPT !.pc = "threw", !.status = 500]
    /\ UNCHANGED <<user, webVars, now, availResult, hic, vmTimer, autoVars, recVars>>

\* user.name.split(' ')[0]
FirstName(u) == Head(u.name)

\* mutant: every caller hears the default greeting of the repository
greetingUrl_AlwaysDefault(u) == [kind |-> "github", file |-> <<FirstName(u), "Voicemail.mp3">>]

\* sendToVoicemail: the greeting URL
greetingUrl(u) ==
    IF u.voicemailGreetingUrl # ""
    THEN [kind |-> "custom", file |-> <<u.voicemailGreetingUrl>>]
    ELSE [kind |-> "github", file |-> <<FirstName(u), "Voicemail.mp3">>]

\* sendToVoicemail: {command_id: 'record_start', format: 'mp3', channels: 'single',
\* play_beep: true}
RecordStart(ok) ==
    [Command("record_start", "", 0, "", NoUrl, ok)
        EXCEPT !.format = "mp3", !.channels = "single", !.play_beep = TRUE]

\* sendToVoicemail: await play_audio; on success arm the 1-second timer and return
VM_PlayAudio ==
    /\ dtmf.pc = "vm_play"
    /\ \E ok \in BOOLEAN :
          /\ commands' = Append(commands,
                Command("play_audio", "", 0, "", greetingUrl(user), ok))
          /\ vmTimer' = ok
          /\ dtmf' = IF ok THEN [dtmf EXCEPT !.pc = "returned", !.action = "voicemail",
                                             !.status = 200]
                     ELSE [dtmf EXCEPT !.pc = "vm_speak"]
    /\ UNCHANGED <<user, webVars, now, availResult, hic, autoVars, recVars>>

\* sendToVoicemail, catch (audioError): await speak
VM_Speak ==
    /\ dtmf.pc = "vm_speak"
    /\ \E ok \in BOOLEAN :
          /\ commands' = Append(commands,
                Command("speak", "", 0, "", [kind |-> "text", file |-> <<user.voicemailGreeting>>], ok))
          /\ dtmf' = IF ok THEN [dtmf EXCEPT !.pc = "vm_record"]
                     ELSE [dtmf EXCEPT !.pc = "threw", !.status = 500]
    /\ UNCHANGED <<user, webVars, now, availResult, hic, vmTimer, autoVars, recVars>>

\* sendToVoicemail, catch (audioError): await record_start; return
VM_Record ==
    /\ dtmf.pc = "vm_record"
    /\ \E ok \in BOOLEAN :
          /\ commands' = Append(commands, RecordStart(ok))
          /\ dtmf' = IF ok THEN [dtmf EXCEPT !.pc = "returned", !.action = "voicemail",
                                             !.status = 200]
                     ELSE [dtmf EXCEPT !.pc = "threw", !.status = 500]
    /\ UNCHANGED <<user, webVars, now, availResult, hic, vmTimer, autoVars, recVars>>

\* sendToVoicemail: the setTimeout callback issues record_start
VM_TimerFires ==
    /\ vmTimer
    /\ \E ok \in BOOLEAN : commands' = Append(commands, RecordStart(ok))
    /\ vmTimer' = FALSE
    /\ UNCHANGED <<user, webVars, now, availResult, hic, dtmf, autoVars, recVars>>

-----------------------------------------------------------------------------
(* SMS Automation Engine (smsAutomationService) *)

\* The clock of the engine is the variable now, in minutes.

\* JavaScript's String.prototype.toLowerCase, on the letters the model uses
LowerCaseChar(c) ==
    CASE c = "S" -> "s" [] c = "T" -> "t" [] c = "O" -> "o" [] c = "P" -> "p"
      [] c = "H" -> "h" [] c = "I" -> "i" [] OTHER -> c

toLowerCase(s) == [i \in 1..Len(s) |-> LowerCaseChar(s[i])]

\* JavaScript's String.prototype.includes
includes(s, sub) ==
    \E i \in 0..(Len(s) - Len(sub)) : SubSeq(s, i + 1, i + Len(sub)) = sub

\* the phone numbers of the model
NumberN == "+15551234567"
OtherNumber == "+15557654321"
SenderS == "+15550100"

AutomationIds == <<"a1", "a2">>

\* conditionSchema: every path of parameters, with the schema's empty defaults
Condition(type, keywords, time, daysOfWeek, availabilityStatus) ==
    [type |-> type, keywords |-> keywords, time |-> time, daysOfWeek |-> daysOfWeek,
     availabilityStatus |-> availabilityStatus]

SimpleCondition(type) == Condition(type, <<>>, <<>>, {}, "")

KeywordCondition(keywords) == Condition("keywordSms", keywords, <<>>, {}, "")

\* actionSchema; message "" is an action without message, delay.value 0 one without delay
Action(type, message, delayValue, delayUnit) ==
    [type |-> type, message |-> message, delay |-> [value |-> delayValue, unit |-> delayUnit]]

\* smsAutomationSchema.statistics and its defaults; lastTriggered -1 is a date not set
NoStatistics ==
    [timesTriggered |-> 0, successCount |-> 0, errorCount |-> 0, lastTriggered |-> -1]

\* mutant: successCount is left to the outcome of the actions
recordTrigger_NoSuccess(statistics, t) ==
    [statistics EXCEPT !.timesTriggered = @ + 1, !.lastTriggered = t]

\* the update of the statistics of a triggered automation, at the instant t:
\* $inc timesTriggered and successCount, $set lastTriggered
recordTrigger(statistics, t) ==
    [statistics EXCEPT !.timesTriggered = @ + 1, !.successCount = @ + 1,
                       !.lastTriggered = t]

Automation(name, isActive, phoneNumber, conditions, actions) ==
    [exists |-> TRUE, name |-> name, isActive |-> isActive, phoneNumber |-> phoneNumber,
     conditions |-> conditions, actions |-> actions, statistics |-> NoStatistics]

\* a document that is not in the collection
NoAutomation ==
    [exists |-> FALSE, name |-> "", isActive |-> FALSE, phoneNumber |-> "",
     conditions |-> <<>>, actions |-> <<>>, statistics |-> NoStatistics]

\* mutant: the query does not look at conditions.type
matchesQuery_AnyConditions(a, phoneNumber, types) ==
    /\ a.exists
    /\ a.isActive
    /\ a.phoneNumber = phoneNumber

\* SmsAutomation.find({isActive: true, phoneNumber, 'conditions.type': {$in: types}})
matchesQuery(a, phoneNumber, types) ==
    /\ a.exists
    /\ a.isActive
    /\ a.phoneNumber = phoneNumber
    /\ \E i \in 1..Len(a.conditions) : a.conditions[i].type \in types

\* SmsAutomation.find({isActive: true, 'conditions.type': 'scheduledTime',
\*   'conditions.parameters.time': timeNow, 'conditions.parameters.daysOfWeek': dayOfWeek})
matchesScheduledQuery(a, timeNow, dayOfWeek) ==
    /\ a.exists
    /\ a.isActive
    /\ \E i \in 1..Len(a.conditions) : a.conditions[i].type = "scheduledTime"
    /\ \E i \in 1..Len(a.conditions) : a.conditions[i].time = timeNow
    /\ \E i \in 1..Len(a.conditions) : dayOfWeek \in a.conditions[i].daysOfWeek

\* SmsAutomation.find({isActive: true, phoneNumber, 'conditions.type': 'availability',
\*   $or: [{'conditions.parameters.availabilityStatus': availabilityStatus}, {...: 'any'}]})
matchesAvailabilityQuery(a, phoneNumber, availabilityStatus) ==
    /\ a.exists
    /\ a.isActive
    /\ a.phoneNumber = phoneNumber
    /\ \E i \in 1..Len(a.conditions) : a.conditions[i].type = "availability"
    /\ \E i \in 1..Len(a.conditions) :
          a.conditions[i].availabilityStatus \in {availabilityStatus, "any"}

\* mutant: keywords are compared with the text as typed (case-sensitive)
conditionMatches_CaseSensitive(condition, messageText) ==
    \/ condition.type = "incomingSms"
    \/ /\ condition.type = "keywordSms"
       /\ \E k \in 1..Len(condition.keywords) : includes(messageText, condition.keywords[k])

\* checkTriggerConditions: the cases of the switch that return true
conditionMatches(condition, messageText) ==
    \/ condition.type = "incomingSms"
    \/ /\ condition.type = "keywordSms"
       /\ Len(condition.keywords) # 0
       /\ \E k \in 1..Len(condition.keywords) :
             includes(toLowerCase(messageText), toLowerCase(condition.keywords[k]))

\* checkTriggerConditions(automation, context): the loop over automation.conditions
RECURSIVE checkFrom(_, _, _)
checkFrom(conditions, i, messageText) ==
    IF i > Len(conditions) THEN FALSE
    ELSE IF conditionMatches(conditions[i], messageText) THEN TRUE
    ELSE checkFrom(conditions, i + 1, messageText)

checkTriggerConditions(automation, context) ==
    IF Len(automation.conditions) = 0 THEN FALSE
    ELSE checkFrom(automation.conditions, 1, context.messageText)

\* the context object the entry points hand to the actions
Context(from, to, messageText, userNumber) ==
    [from |-> from, to |-> to, messageText |-> messageText, userNumber |-> userNumber]

Message(from, to, text, ok, by) == [from |-> from, to |-> to, text |-> text, ok |-> ok, by |-> by]

\* mutant: the reply goes from the triggering party to the automation's number
executeSendSmsAction_Swapped(id, action, context, sendOk) ==
    IF action.message = "" THEN [threw |-> TRUE, sends |-> <<>>]
    ELSE LET to == IF context.to # "" THEN context.to ELSE context.userNumber
             from == context.from
         IN  IF from = "" \/ to = "" THEN [threw |-> TRUE, sends |-> <<>>]
             ELSE [threw |-> ~sendOk,
                   sends |-> <<Message(from, to, action.message, sendOk, id)>>]

\* executeSendSmsAction(action, context), for an action without template;
\* sendOk tells whether telnyxService.sendSMS resolves
executeSendSmsAction(id, action, context, sendOk) ==
    IF action.message = "" THEN [threw |-> TRUE, sends |-> <<>>]
    ELSE LET from == IF context.to # "" THEN context.to ELSE context.userNumber
             to == context.from
         IN  IF from = "" \/ to = "" THEN [threw |-> TRUE, sends |-> <<>>]
             ELSE [threw |-> ~sendOk,
                   sends |-> <<Message(from, to, action.message, sendOk, id)>>]

\* executeAction(action, context)
executeAction(id, action, context, sendOk) ==
    IF action.type = "sendSms"
    THEN LET r == executeSendSmsAction(id, action, context, sendOk)
         IN  [status |-> IF r.threw THEN "error" ELSE "success", sends |-> r.sends]
    ELSE IF action.type = "notify" THEN [status |-> "success", sends |-> <<>>]
    ELSE [status |-> "skipped", sends |-> <<>>]

\* Node's timers: a delay above 2^31 - 1 ms does not fit and is set to 1 ms
TIMEOUT_MAX_MINUTES == 2147483647 \div 60000

\* scheduleDelayedAction: delayMs, in minutes
delayMinutes(delay) ==
    IF delay.unit = "hours" THEN delay.value * 60
    ELSE IF delay.unit = "days" THEN delay.value * 24 * 60
    ELSE delay.value

\* setTimeout(callback, delayMs): the minutes after which the callback may run
timeoutMinutes(delay) ==
    IF delayMinutes(delay) > TIMEOUT_MAX_MINUTES THEN 0 ELSE delayMinutes(delay)

\* scheduleDelayedAction(automationId, action, context): the armed timer
Timer(id, action, context, t) ==
    [automationId |-> id, action |-> action, context |-> context, armedAt |-> t,
     due |-> t + timeoutMinutes(action.delay)]

NoOutcome == [results |-> <<>>, sends |-> <<>>, timers |-> <<>>]

\* executeAutomationActions(automation, context): the loop over automation.actions
RECURSIVE actionsFrom(_, _, _, _, _, _)
actionsFrom(id, actions, i, context, sendOk, t) ==
    IF i > Len(actions) THEN NoOutcome
    ELSE LET rest == actionsFrom(id, actions, i + 1, context, sendOk, t)
         IN  IF actions[i].delay.value > 0
             THEN [results |-> <<"scheduled">> \o rest.results,
                   sends |-> rest.sends,
                   timers |-> <<Timer(id, actions[i], context, t)>> \o rest.timers]
             ELSE LET r == executeAction(id, actions[i], context, sendOk)
                  IN  [results |-> <<r.status>> \o rest.results,
                       sends |-> r.sends \o rest.sends,
                       timers |-> rest.timers]

executeAutomationActions(id, automation, context, sendOk, t) ==
    actionsFrom(id, automation.actions, 1, context, sendOk, t)

\* what an entry point was called with
Input(to, from, text, eventType, hangupCause, isVoicemail, userId, isAvailable) ==
    [to |-> to, from |-> from, text |-> text, eventType |-> eventType,
     hangupCause |-> hangupCause, isVoicemail |-> isVoicemail, userId |-> userId,
     isAvailable |-> isAvailable]

NoInput == Input("", "", <<>>, "", "", FALSE, "", FALSE)

NoResult ==
    [op |-> "none", input |-> NoInput, processed |-> FALSE, triggeredAutomations |-> <<>>,
     total |-> 0, results |-> <<>>, sends |-> <<>>]

AutoIdle ==
    /\ automations = [id \in {"a1", "a2"} |-> NoAutomation]
    /\ timers = <<>>
    /\ sent = <<>>
    /\ fired = <<>>
    /\ lastResult = NoResult
    /\ nEvents = 0

\* the body shared by the four entry points, for the automations that matched:
\* executeAutomationActions, triggeredAutomations.push(automation.name) and the
\* statistics update, automation by automation; then the returned object
Trigger(op, input, matched, context, sendOk) ==
    LET out[k \in 0..Len(matched)] ==
            IF k = 0 THEN NoOutcome
            ELSE LET r == executeAutomationActions(matched[k], automations[matched[k]],
                                                   context, sendOk, now)
                 IN  [results |-> Append(out[k - 1].results, r.results),
                      sends |-> out[k - 1].sends \o r.sends,
                      timers |-> out[k - 1].timers \o r.timers]
        final == out[Len(matched)]
        hit == {matched[k] : k \in 1..Len(matched)}
    IN  /\ automations' =
              [id \in DOMAIN automations |->
                  IF id \in hit
                  THEN [automations[id] EXCEPT !.statistics = recordTrigger(@, now)]
                  ELSE automations[id]]
        /\ sent' = sent \o final.sends
        /\ timers' = timers \o final.timers
        /\ lastResult' =
              [op |-> op, input |-> input, processed |-> Len(matched) > 0,
               triggeredAutomations |-> [k \in 1..Len(matched) |-> automations[matched[k]].name],
               total |-> Len(matched), results |-> final.results, sends |-> final.sends]
        /\ nEvents' = nEvents + 1
        /\ UNCHANGED <<user, webVars, now, availResult, routerVars, fired, recVars>>

STOP == <<"S", "T", "O", "P">>
stop == <<"s", "t", "o", "p">>
hi == <<"h", "i">>

\* the inbound texts of the model
Texts == {STOP, stop, <<"n", "o", " ", "S", "t", "o", "p">>, hi, <<"s", "t", "o">>, <<>>}

\* processIncomingSms(smsData)
ProcessIncomingSms ==
    /\ nEvents < MaxEvents
    /\ \E to \in {NumberN, OtherNumber}, text \in Texts, sendOk \in BOOLEAN :
          LET context == Context(SenderS, to, text, "")
              Hit(id) == /\ matchesQuery(automations[id], to, {"incomingSms", "keywordSms"})
                         /\ checkTriggerConditions(automations[id], context)
          IN  Trigger("sms", Input(to, SenderS, text, "", "", FALSE, "", FALSE),
                      SelectSeq(AutomationIds, Hit), context, sendOk)

\* mutant: every hangup counts as a missed call
conditionTypeOf_AnyHangup(eventType, hangupCause, isVoicemail) ==
    IF eventType = "call.initiated" THEN "incomingCall"
    ELSE IF eventType = "call.hangup" THEN "missedCall"
    ELSE IF eventType = "call.recording.saved" /\ isVoicemail THEN "voicemail"
    ELSE ""

\* processCallEvent: the condition type of the event, "" when it has none
conditionTypeOf(eventType, hangupCause, isVoicemail) ==
    IF eventType = "call.initiated" THEN "incomingCall"
    ELSE IF eventType = "call.hangup" /\ hangupCause = "unanswered" THEN "missedCall"
    ELSE IF eventType = "call.recording.saved" /\ isVoicemail THEN "voicemail"
    ELSE ""

\* the call events of the model: event type, hangup cause, isVoicemail
CallEvents ==
    {<<"call.initiated", "", FALSE>>, <<"call.hangup", "unanswered", FALSE>>,
     <<"call.hangup", "normal_clearing", FALSE>>, <<"call.answered", "", FALSE>>,
     <<"call.recording.saved", "", TRUE>>, <<"call.recording.saved", "", FALSE>>}

\* processCallEvent(callData)
ProcessCallEvent ==
    /\ nEvents < MaxEvents
    /\ \E to \in {NumberN, OtherNumber}, e \in CallEvents, sendOk \in BOOLEAN :
          LET conditionType == conditionTypeOf(e[1], e[2], e[3])
              context == Context(SenderS, to, <<>>, "")
              Hit(id) == /\ conditionType # ""
                         /\ matchesQuery(automations[id], to, {conditionType})
          IN  Trigger("call", Input(to, SenderS, <<>>, e[1], e[2], e[3], "", FALSE),
                      SelectSeq(AutomationIds, Hit), context, sendOk)

\* processScheduledAutomations(); automation.user is the populated user
ProcessScheduledAutomations ==
    /\ nEvents < MaxEvents
    /\ \E sendOk \in BOOLEAN :
          LET context == Context("", "", <<>>, user.telnyxPhoneNumber)
              Hit(id) == matchesScheduledQuery(automations[id], FormatHHmm(now), FormatDay(now))
          IN  Trigger("scheduled", NoInput, SelectSeq(AutomationIds, Hit), context, sendOk)

\* processAvailabilityChange(userId, isAvailable); "u1" is the user of the model
ProcessAvailabilityChange ==
    /\ nEvents < MaxEvents
    /\ \E userId \in {"u1", "u9"}, isAvailable \in BOOLEAN, sendOk \in BOOLEAN :
          LET found == userId = "u1" /\ user.telnyxPhoneNumber # ""
              availabilityStatus == IF isAvailable THEN "available" ELSE "unavailable"
              context == Context("", "", <<>>, user.telnyxPhoneNumber)
              Hit(id) == /\ found
                         /\ matchesAvailabilityQuery(automations[id], user.telnyxPhoneNumber,
                                                     availabilityStatus)
          IN  Trigger("availability", Input("", "", <<>>, "", "", FALSE, userId, isAvailable),
                      SelectSeq(AutomationIds, Hit), context, sendOk)

RemoveAt(s, i) == SubSeq(s, 1, i - 1) \o SubSeq(s, i + 1, Len(s))

\* the callback of scheduleDelayedAction's setTimeout
TimerFires ==
    \E i \in 1..Len(timers) :
        LET t == timers[i]
            automation == automations[t.automationId]
        IN  /\ now >= t.due
            /\ timers' = RemoveAt(timers, i)
            /\ IF ~automation.exists \/ ~automation.isActive
               THEN /\ fired' = Append(fired, [timer |-> t, at |-> now, active |-> FALSE,
                                               executed |-> FALSE, sends |-> <<>>])
                    /\ UNCHANGED <<automations, sent>>
               ELSE \E sendOk \in BOOLEAN :
                       LET r == executeAction(t.automationId, t.action, t.context, sendOk)
                       IN  /\ sent' = sent \o r.sends
                           /\ automations' =
                                 [automations EXCEPT
                                     ![t.automationId].statistics.successCount = @ + 1]
                           /\ fired' = Append(fired, [timer |-> t, at |-> now, active |-> TRUE,
                                                      executed |-> TRUE, sends |-> r.sends])
            /\ UNCHANGED <<user, webVars, now, availResult, routerVars, lastResult, nEvents, recVars>>

\* time passes, up to the moment a pending timer is due
Tick ==
    /\ \E i \in 1..Len(timers) : timers[i].due > now /\ now' = timers[i].due
    /\ UNCHANGED <<user, webVars, availResult, routerVars, automations, timers, sent, fired,
                   lastResult, nEvents, recVars>>

\* the ids the delete requests of the model name
DeleteIds == {"a1"}

\* smsAutomationController.deleteAutomation: SmsAutomation.findByIdAndDelete(id)
DeleteAutomation ==
    /\ \E id \in DeleteIds :
          /\ automations[id].exists
          /\ automations' = [automations EXCEPT ![id] = NoAutomation]
    /\ UNCHANGED <<user, webVars, now, availResult, routerVars, timers, sent, fired, lastResult,
                   nEvents, recVars>>

\* reading a path that smsAutomationSchema does not define
NO_PATH == "undefined"

\* automation.status of a document loaded by SmsAutomation.findById: the schema has
\* isActive and no path status
statusOf(automation) == NO_PATH

\* automation.status === 'active' ? 'inactive' : 'active'
toggled(status) == IF status = "active" THEN "inactive" ELSE "active"

\* the ids the toggle requests of the model name
ToggleIds == {"a1", "a2"}

\* smsAutomationController.toggleAutomationStatus: the assignment to status sets a
\* property that is no path of the schema, so automation.save() stores nothing
ToggleAutomationStatus ==
    /\ Len(toggles) < MaxToggles
    /\ \E id \in ToggleIds :
          toggles' =
              Append(toggles,
                     IF ~automations[id].exists
                     THEN [id |-> id, code |-> 404, status |-> "", message |-> "not found"]
                     ELSE LET status == toggled(statusOf(automations[id]))
                          IN  [id |-> id, code |-> 200, status |-> status,
                               message |-> IF status = "active" THEN "activated"
                                           ELSE "deactivated"])
    /\ UNCHANGED <<user, hooks, tpl, smsVars, callLog, syncVars, procVars, now, availResult,
                   routerVars, autoVars, recVars>>

-----------------------------------------------------------------------------
(* Recording webhook (callController.handleCallRecording) *)

CallIds == {"c1", "c2"}

\* the webhook requests of the model: 1..MaxDeliveries
Deliveries == 1..MaxDeliveries

\* callSchema: the fields the handler reads and writes
Call(status) == [exists |-> TRUE, status |-> status, recordingUrl |-> ""]

NoCall == [exists |-> FALSE, status |-> "", recordingUrl |-> ""]

NoRecording == [pc |-> "idle", call_control_id |-> "", recordingUrl |-> "", call |-> NoCall]

RecIdle ==
    /\ calls = [c \in CallIds |-> NoCall]
    /\ voicemails = <<>>
    /\ recordings = [r \in Deliveries |-> NoRecording]

\* handleCallRecording: the request arrives; recording_urls?.mp3 may be missing
Rec_Receive(r) ==
    /\ recordings[r].pc = "idle"
    /\ \E c \in CallIds, url \in {"", "https://example.org/rec.mp3"} :
          recordings' = [recordings EXCEPT ![r] =
              [pc |-> IF url = "" THEN "done" ELSE "find", call_control_id |-> c,
               recordingUrl |-> url, call |-> NoCall]]
    /\ UNCHANGED <<user, webVars, now, availResult, routerVars, autoVars, calls, voicemails>>

\* handleCallRecording: const call = await Call.findOne({telnyxCallControlId})
Rec_FindCall(r) ==
    /\ recordings[r].pc = "find"
    /\ LET call == calls[recordings[r].call_control_id]
       IN  recordings' = [recordings EXCEPT ![r].call = call,
                                            ![r].pc = IF call.exists THEN "update" ELSE "done"]
    /\ UNCHANGED <<user, webVars, now, availResult, routerVars, autoVars, calls, voicemails>>

\* mutant: the voicemail test reads the call again after the update
voicemailTest_Reread(call, stored) == stored.status = "voicemail"

\* handleCallRecording: if (call.status === 'voicemail'), on the call found earlier
voicemailTest(call, stored) == call.status = "voicemail"

\* handleCallRecording: await Call.findByIdAndUpdate(call._id, {recordingUrl, status})
Rec_UpdateCall(r) ==
    /\ recordings[r].pc = "update"
    /\ LET c == recordings[r].call_control_id
       IN  /\ calls' = [calls EXCEPT ![c].recordingUrl = recordings[r].recordingUrl,
                                     ![c].status = "completed"]
           /\ recordings' = [recordings EXCEPT ![r].pc =
                  IF voicemailTest(recordings[r].call, calls'[c]) THEN "save" ELSE "done"]
    /\ UNCHANGED <<user, webVars, now, availResult, routerVars, autoVars, voicemails>>

\* handleCallRecording: await new Voicemail({...}).save()
Rec_SaveVoicemail(r) ==
    /\ recordings[r].pc = "save"
    /\ voicemails' = Append(voicemails,
          [callId |-> recordings[r].call_control_id,
           recordingUrl |-> recordings[r].recordingUrl,
           callStatus |-> recordings[r].call.status])
    /\ recordings' = [recordings EXCEPT ![r].pc = "done"]
    /\ UNCHANGED <<user, webVars, now, availResult, routerVars, autoVars, calls>>

-----------------------------------------------------------------------------
(* Webhook controller (webhookController.handleIncomingSms, handleCallEvent,
   handleCallRecording) *)

Hooks == 1..MaxHooks

\* event.event_type, with hangup_cause for call.hangup
HookEvents ==
    {"message.received", "call.initiated", "call.answered", "call.hangup unanswered",
     "call.hangup normal_clearing", "call.recording.saved"}

\* the handler looks the user up for a notification: always for an SMS and a
\* recording, for a call event only when it is an unanswered hangup
notifies(event) ==
    event \in {"message.received", "call.recording.saved", "call.hangup unanswered"}

NoHook ==
    [pc |-> "idle", event |-> "", responses |-> <<>>, raised |-> FALSE,
     automation |-> "none", notification |-> "none", logged |-> 0]

HooksIdle == hooks = [h \in Hooks |-> NoHook]

\* res.status(code).send / json: Express throws ERR_HTTP_HEADERS_SENT when a response
\* was sent already, and the response that was sent stays as it is
respond(h, code) ==
    IF Len(h.responses) = 0
    THEN [h EXCEPT !.responses = <<code>>]
    ELSE [h EXCEPT !.raised = TRUE]

\* the handler of the event type (handleIncomingSms, handleCallEvent or
\* handleCallRecording) is invoked with the request, as the switch of processWebhook
\* does when its this is the controller
Hook_Receive(i) ==
    /\ hooks[i].pc = "idle"
    /\ \E event \in HookEvents :
          hooks' = [hooks EXCEPT ![i] = [NoHook EXCEPT !.pc = "delegate", !.event = event]]
    /\ UNCHANGED <<user, ctlVars, now, availResult, routerVars, autoVars, recVars>>

\* await smsController.handleIncomingSMS / callController.handleIncomingCall /
\* callController.handleCallRecording (req, res): the controller answers 200, or 500
\* from its own catch block; then the automation engine is started without await
Hook_Delegate(i) ==
    /\ hooks[i].pc = "delegate"
    /\ \E code \in {200, 500} :
          hooks' = [hooks EXCEPT ![i] =
              [respond(hooks[i], code) EXCEPT
                  !.automation = "pending",
                  !.pc = IF notifies(hooks[i].event) THEN "lookup" ELSE "done"]]
    /\ UNCHANGED <<user, ctlVars, now, availResult, routerVars, autoVars, recVars>>

\* mutant: the rejection handler answers the request with an error
onRejected_Responds(h) == respond([h EXCEPT !.logged = @ + 1], 500)

\* .catch(error => console.error(...)) on the promise of the engine or of notify*
onRejected(h) == [h EXCEPT !.logged = @ + 1]

\* the promise of processIncomingSms / processCallEvent settles
Hook_AutomationSettles(i) ==
    /\ hooks[i].automation = "pending"
    /\ \/ hooks' = [hooks EXCEPT ![i] = [hooks[i] EXCEPT !.automation = "resolved"]]
       \/ hooks' = [hooks EXCEPT ![i] =
              [onRejected(hooks[i]) EXCEPT !.automation = "rejected"]]
    /\ UNCHANGED <<user, ctlVars, now, availResult, routerVars, autoVars, recVars>>

\* const user = await User.findOne({telnyxPhoneNumber: toNumber}); when it throws,
\* the catch block of the handler calls res.status(500).json on the answered request
Hook_Lookup(i) ==
    /\ hooks[i].pc = "lookup"
    /\ \E found \in {"user", "none", "error"} :
          hooks' = [hooks EXCEPT ![i] =
              IF found = "user"
              THEN [hooks[i] EXCEPT !.notification = "pending", !.pc = "done"]
              ELSE IF found = "none"
              THEN [hooks[i] EXCEPT !.pc = "done"]
              ELSE [respond(hooks[i], 500) EXCEPT !.pc = "done"]]
    /\ UNCHANGED <<user, ctlVars, now, availResult, routerVars, autoVars, recVars>>

\* the promise of notifyNewSMS / notifyMissedCall / notifyNewVoicemail settles: each
\* catches its own errors and resolves, with an error field when something failed
Hook_NotificationSettles(i) ==
    /\ hooks[i].notification = "pending"
    /\ \E result \in {"resolved", "resolved with error"} :
          hooks' = [hooks EXCEPT ![i] = [hooks[i] EXCEPT !.notification = result]]
    /\ UNCHANGED <<user, ctlVars, now, availResult, routerVars, autoVars, recVars>>

-----------------------------------------------------------------------------
(* Template rendering (smsAutomationService.processTemplate) *)

\* Strings are sequences of characters.

OPEN == <<"{", "{">>

CLOSE == <<"}", "}">>

\* the keys of the variables object, in the order Object.keys returns them
TemplateKeys ==
    <<OPEN \o <<"u", "s", "e", "r", ".", "n", "a", "m", "e">> \o CLOSE,
      OPEN \o <<"u", "s", "e", "r", ".", "f", "i", "r", "s", "t", "N", "a", "m", "e">> \o CLOSE,
      OPEN \o <<"u", "s", "e", "r", ".", "e", "m", "a", "i", "l">> \o CLOSE,
      OPEN \o <<"u", "s", "e", "r", ".", "p", "h", "o", "n", "e">> \o CLOSE,
      OPEN \o <<"d", "a", "t", "e">> \o CLOSE,
      OPEN \o <<"t", "i", "m", "e">> \o CLOSE,
      OPEN \o <<"d", "a", "y">> \o CLOSE,
      OPEN \o <<"s", "e", "n", "d", "e", "r">> \o CLOSE,
      OPEN \o <<"m", "e", "s", "s", "a", "g", "e">> \o CLOSE,
      OPEN \o <<"c", "a", "l", "l", "T", "y", "p", "e">> \o CLOSE,
      OPEN \o <<"c", "a", "l", "l", "D", "u", "r", "a", "t", "i", "o", "n">> \o CLOSE,
      OPEN \o <<"a", "v", "a", "i", "l", "a", "b", "i", "l", "i", "t", "y">> \o CLOSE>>

\* value || fallback on strings: the empty string is falsy
OrElse(value, fallback) == IF value = <<>> THEN fallback ELSE value

\* name.split(' ')[0]
RECURSIVE FirstWord(_)
FirstWord(name) ==
    IF name = <<>> \/ Head(name) = " " THEN <<>>
    ELSE <<Head(name)>> \o FirstWord(Tail(name))

\* the context a template is rendered in; userName is <<>> when there is no user
TemplateContext(userName, from, messageText) ==
    [userName |-> userName, from |-> from, messageText |-> messageText]

\* the values of the variables object, key by key
TemplateValues(context) ==
    <<OrElse(context.userName, <<"U", "s", "e", "r">>),
      OrElse(FirstWord(context.userName), <<"U", "s", "e", "r">>),
      <<>>,
      <<>>,
      <<"1", "/", "2">>,
      <<"9", ":", "2", "6">>,
      <<"M", "o", "n">>,
      context.from,
      context.messageText,
      <<>>,
      <<"0">>,
      <<>>>>

\* new RegExp(key): every character of a key stands for itself, except that '.'
\* matches any character but a line terminator (the braces do not form a quantifier)
MatchesAt(pattern, content, i) ==
    /\ i + Len(pattern) - 1 <= Len(content)
    /\ \A j \in 1..Len(pattern) :
          IF pattern[j] = "." THEN content[i + j - 1] # "\n"
          ELSE content[i + j - 1] = pattern[j]

\* the grave accent, as a character
BACKTICK == "grave"

\* the replacement string of String.prototype.replace: $$ is a dollar sign, $& the
\* match, $ with a grave accent the text before the match and $ with an apostrophe
\* the text after it
RECURSIVE Expand(_, _, _, _, _)
Expand(replacement, k, matched, before, after) ==
    IF k > Len(replacement) THEN <<>>
    ELSE IF replacement[k] = "$" /\ k < Len(replacement)
                /\ replacement[k + 1] \in {"$", "&", BACKTICK, "'"}
    THEN (CASE replacement[k + 1] = "$" -> <<"$">>
            [] replacement[k + 1] = "&" -> matched
            [] replacement[k + 1] = BACKTICK -> before
            [] OTHER -> after)
         \o Expand(replacement, k + 2, matched, before, after)
    ELSE <<replacement[k]>> \o Expand(replacement, k + 1, matched, before, after)

\* content.replace(new RegExp(key, 'g'), value), scanning from position i
RECURSIVE ReplaceFrom(_, _, _, _)
ReplaceFrom(content, i, pattern, replacement) ==
    IF i > Len(content) THEN <<>>
    ELSE IF MatchesAt(pattern, content, i)
    THEN Expand(replacement, 1, SubSeq(content, i, i + Len(pattern) - 1),
                SubSeq(content, 1, i - 1),
                SubSeq(content, i + Len(pattern), Len(content)))
         \o ReplaceFrom(content, i + Len(pattern), pattern, replacement)
    ELSE <<content[i]>> \o ReplaceFrom(content, i + 1, pattern, replacement)

\* mutant: the template is returned as it is
processTemplate_Unrendered(content, context) == content

\* processTemplate(template, context): Object.keys(variables).forEach(key => ...)
processTemplate(content, context) ==
    LET values == TemplateValues(context)
        pass[k \in 0..Len(TemplateKeys)] ==
            IF k = 0 THEN content
            ELSE ReplaceFrom(pass[k - 1], 1, TemplateKeys[k], values[k])
    IN  pass[Len(TemplateKeys)]

NoTemplate ==
    [content |-> <<>>, context |-> TemplateContext(<<>>, <<>>, <<>>), done |-> FALSE,
     rendered |-> <<>>, threw |-> FALSE]

TplIdle == tpl = NoTemplate

Syncs == 1..MaxSyncs

\* an invocation of syncUserCalendar: where it is and the list its fetch returned
NoSync == [pc |-> "idle", events |-> <<>>]

SmsIdle ==
    /\ smsLog = <<>>
    /\ smsStore = <<>>
    /\ replies = <<>>

CallLogIdle == callLog = <<>>

\* a user whose calendar was never synchronised: no provider, lastSyncTime not set
SyncIdle ==
    /\ syncs = [i \in Syncs |-> NoSync]
    /\ calMeta = [providerType |-> "", lastSyncTime |-> -1]

\* a process that has just started with the configured API key
ProcIdle ==
    /\ telnyxClient = 0
    /\ lost = <<>>

\* no toggle request was answered yet
ToggleIdle == toggles = <<>>

WebIdle ==
    HooksIdle /\ TplIdle /\ SmsIdle /\ CallLogIdle /\ SyncIdle /\ ProcIdle /\ ToggleIdle

\* one call of processTemplate
Render ==
    /\ ~tpl.done
    /\ tpl' = [tpl EXCEPT !.done = TRUE,
                          !.rendered = processTemplate(tpl.content, tpl.context)]
    /\ UNCHANGED <<user, hooks, smsVars, callLog, syncVars, procVars, toggles, now, availResult, routerVars, autoVars,
                   recVars>>

-----------------------------------------------------------------------------
(* SMS controller (smsController.handleIncomingSMS) *)

AUTO_REPLY_TEXT ==
    "Thank you for your message. I'm currently unavailable. I'll respond when I'm back online."

\* a document of smsSchema
SmsRecord(telnyxMessageId, direction, from, to, body, status) ==
    [telnyxMessageId |-> telnyxMessageId, direction |-> direction, from |-> from, to |-> to,
     body |-> body, status |-> status]

\* sms.save(): the required strings of smsSchema are not empty and telnyxMessageId
\* is unique in the collection
saveSucceeds(record, store) ==
    /\ record.telnyxMessageId # ""
    /\ record.from # ""
    /\ record.to # ""
    /\ record.body # ""
    /\ \A i \in 1..Len(store) : store[i].telnyxMessageId # record.telnyxMessageId

\* the event of a request: event_type and the fields of event.payload
SmsEvent(eventType, id, from, to, text) ==
    [eventType |-> eventType, id |-> id, from |-> from, to |-> to, text |-> text]

SmsEvents ==
    {SmsEvent(e, id, SenderS, to, text) :
        e \in {"message.received", "message.finalized"}, id \in {"m1", "m2"},
        to \in {NumberN, OtherNumber}, text \in {"hi", ""}}

\* handleIncomingSMS(req, res), from the request to the response
HandleIncomingSMS ==
    /\ Len(smsLog) < MaxSms
    /\ \E event \in SmsEvents, sendOk \in BOOLEAN :
          LET found == event.to = user.telnyxPhoneNumber
              isAvailable == isUserAvailable(user, now)
              sms == SmsRecord(event.id, "inbound", event.from, event.to, event.text,
                               "received")
              saved == saveSucceeds(sms, smsStore)
              autoReplySMS == SmsRecord("auto-reply-" \o event.id, "outbound", event.to,
                                        event.from, AUTO_REPLY_TEXT, "sent")
              Answer(code) == Append(smsLog, [event |-> event, sendOk |-> sendOk,
                                              status |-> code])
          IN  IF event.eventType # "message.received" \/ ~found
              THEN /\ smsLog' = Answer(200)
                   /\ UNCHANGED <<smsStore, replies>>
              ELSE IF ~saved
              THEN /\ smsLog' = Answer(500)
                   /\ UNCHANGED <<smsStore, replies>>
              ELSE IF isAvailable
              THEN /\ smsLog' = Answer(200)
                   /\ smsStore' = Append(smsStore, sms)
                   /\ UNCHANGED replies
              ELSE /\ replies' = Append(replies, Message(event.to, event.from,
                                                         AUTO_REPLY_TEXT, sendOk, ""))
                   /\ IF sendOk /\ saveSucceeds(autoReplySMS, Append(smsStore, sms))
                      THEN /\ smsStore' = smsStore \o <<sms, autoReplySMS>>
                           /\ smsLog' = Answer(200)
                      ELSE /\ smsStore' = Append(smsStore, sms)
                           /\ smsLog' = Answer(500)
    /\ UNCHANGED <<user, hooks, tpl, callLog, syncVars, procVars, toggles, now, availResult, routerVars, autoVars,
                   recVars>>

-----------------------------------------------------------------------------
(* Call controller (callController.handleIncomingCall) and the routes to it *)

\* the call of the model
TheCall == "c1"

\* the two routes that lead a call webhook to the controller: app.post('/webhook',
\* webhookController.processWebhook) and router.post('/webhook/incoming',
\* callController.handleIncomingCall) under /api/calls
CallRoutes == {"/webhook", "/api/calls/webhook/incoming"}

\* req.body.data: event_type, the direction read from data itself ("undefined" when
\* data holds only event_type and payload) and the fields read from data.payload
CallEnvelope(eventType, direction, to, id) ==
    [event_type |-> eventType, direction |-> direction, to |-> to, call_control_id |-> id]

CallEnvelopes ==
    {CallEnvelope(e, d, to, TheCall) :
        e \in {"call.initiated", "call.answered", "call.hangup"},
        d \in {"incoming", "undefined"}, to \in {NumberN, OtherNumber}}

\* hic.pc before telnyxService.handleIncomingCall was invoked
NOT_INVOKED == "not_invoked"

\* mutant: the guard reads event_type only
passesGuard_TypeOnly(event) == event.event_type = "call.initiated"

\* handleIncomingCall: the negation of
\* event.event_type !== 'call.initiated' || event.direction !== 'incoming'
passesGuard(event) == event.event_type = "call.initiated" /\ event.direction = "incoming"

CallRequest(route, event, pc, status, created, routed) ==
    [route |-> route, event |-> event, pc |-> pc, status |-> status, created |-> created,
     routed |-> routed]

\* a call webhook arrives. processWebhook is registered as a bare function, so its
\* this is undefined and this.handleCallEvent throws inside its try: 500. On its own
\* route handleIncomingCall runs up to the invocation of the Call Router.
Call_Receive ==
    /\ Len(callLog) < MaxCallEvents
    /\ \A k \in 1..Len(callLog) : callLog[k].pc = "done"
    /\ \E route \in CallRoutes, event \in CallEnvelopes :
          LET Log(pc, status, created, routed) ==
                  Append(callLog, CallRequest(route, event, pc, status, created, routed))
          IN  IF route = "/webhook"
              THEN /\ callLog' = Log("done", 500, FALSE, 0)
                   /\ UNCHANGED <<calls, hic>>
              ELSE IF ~passesGuard(event) \/ event.to # user.telnyxPhoneNumber
              THEN /\ callLog' = Log("done", 200, FALSE, 0)
                   /\ UNCHANGED <<calls, hic>>
              ELSE IF calls[event.call_control_id].exists \/ hic.pc # NOT_INVOKED
              THEN \* call.save() rejects a second document with the telnyxCallControlId
                   /\ callLog' = Log("done", 500, FALSE, 0)
                   /\ UNCHANGED <<calls, hic>>
              ELSE /\ calls' = [calls EXCEPT ![event.call_control_id] = Call("initiated")]
                   /\ hic' = HicIdle
                   /\ callLog' = Log("routing", 0, TRUE, 1)
    /\ UNCHANGED <<user, hooks, tpl, smsVars, syncVars, procVars, toggles, now, availResult, dtmf, commands,
                   vmTimer,
                   autoVars, voicemails, recordings>>

\* handleIncomingCall after telnyxService.handleIncomingCall settled: the status
\* 'voicemail' for result.action 'voicemail', then 200; 500 from the catch
Call_Return ==
    /\ Len(callLog) >= 1
    /\ callLog[Len(callLog)].pc = "routing"
    /\ hic.pc \in {"returned", "threw"}
    /\ LET event == callLog[Len(callLog)].event
       IN  /\ calls' = IF hic.pc = "returned" /\ hic.action = "voicemail"
                       THEN [calls EXCEPT ![event.call_control_id].status = "voicemail"]
                       ELSE calls
           /\ callLog' = [callLog EXCEPT ![Len(callLog)].pc = "done",
                                         ![Len(callLog)].status =
                                             IF hic.pc = "returned" THEN 200 ELSE 500]
    /\ UNCHANGED <<user, hooks, tpl, smsVars, syncVars, procVars, toggles, now, availResult, routerVars,
                   autoVars, voicemails, recordings>>

-----------------------------------------------------------------------------
(* Calendar synchronisation (calendarService.syncUserCalendar) *)

\* provider.type: two of the supported types (apple is a placeholder whose fetch
\* returns no event) and one that the switch does not know
ProviderTypes == {"google", "apple", "outlook"}

\* the events the providers of the model know
SyncEvents ==
    {e \in CalendarEvents : e.status = "confirmed" /\ e.startTime = TimeOfDay(0)
                            /\ e.endTime = TimeOfDay(1)}

\* the event lists a provider may return
ProviderLists ==
    {<<>>} \cup {<<e>> : e \in SyncEvents} \cup {<<e, f>> : e \in SyncEvents, f \in SyncEvents}

\* mutant: the fetched events are added to the cached ones
storeEvents_Merge(cached, fetched) == cached \o fetched

\* findByIdAndUpdate(userId, {'calendarIntegration.events': events, ..}): the value
\* of calendarIntegration.events after the update
storeEvents(cached, fetched) == fetched

\* syncUserCalendar: User.findById, the enabled test and the switch on provider.type
Sync_Begin(i) ==
    /\ syncs[i].pc = "idle"
    /\ syncs' = [syncs EXCEPT ![i].pc =
                    IF ~user.calendarIntegration.enabled THEN "threw"
                    ELSE IF calMeta.providerType \notin {"google", "apple"} THEN "threw"
                    ELSE "fetch"]
    /\ UNCHANGED <<user, calMeta, hooks, tpl, smsVars, callLog, procVars, toggles, now, availResult, routerVars,
                   autoVars, recVars>>

\* syncUserCalendar: events = await this.fetch...Events(user), which may throw
Sync_Fetch(i) ==
    /\ syncs[i].pc = "fetch"
    /\ \/ \E events \in IF calMeta.providerType = "apple" THEN {<<>>} ELSE ProviderLists :
             syncs' = [syncs EXCEPT ![i].pc = "update", ![i].events = events]
       \/ /\ calMeta.providerType # "apple"
          /\ syncs' = [syncs EXCEPT ![i].pc = "threw"]
    /\ UNCHANGED <<user, calMeta, hooks, tpl, smsVars, callLog, procVars, toggles, now, availResult, routerVars,
                   autoVars, recVars>>

\* syncUserCalendar: await User.findByIdAndUpdate(userId, {...}); return updatedUser
Sync_Update(i) ==
    /\ syncs[i].pc = "update"
    /\ user' = [user EXCEPT !.calendarIntegration.events = storeEvents(@, syncs[i].events)]
    /\ calMeta' = [calMeta EXCEPT !.lastSyncTime = now]
    /\ syncs' = [syncs EXCEPT ![i].pc = "returned"]
    /\ UNCHANGED <<hooks, tpl, smsVars, callLog, procVars, toggles, now, availResult, routerVars, autoVars,
                   recVars>>

-----------------------------------------------------------------------------
(* Restart of the process *)

\* mutant: the armed timers are stored and armed again at start
afterRestart_Persisted(pending) == pending

\* the timers of a process that has just started: setTimeout keeps them in the memory
\* of the process that armed them and nothing re-arms them at start
afterRestart(pending) == <<>>

\* the process stops and starts again while timers are pending. The collections are
\* in the database and stay; telnyxClient is built again from the environment.
Restart ==
    /\ timers # <<>>
    /\ lost' = lost \o timers
    /\ timers' = afterRestart(timers)
    /\ telnyxClient' = 0
    /\ UNCHANGED <<user, hooks, tpl, smsVars, callLog, syncVars, toggles, now, availResult,
                   routerVars, automations, sent, fired, lastResult, nEvents, recVars>>

\* updateTelnyxApiKey reaches telnyxService.reinitializeClient(apiKey), which assigns
\* a new instance to the module variable telnyxClient
ReinitializeClient ==
    /\ telnyxClient < MaxReinits
    /\ telnyxClient' = telnyxClient + 1
    /\ UNCHANGED <<user, hooks, tpl, smsVars, callLog, syncVars, lost, toggles, now, availResult,
                   routerVars, autoVars, recVars>>

-----------------------------------------------------------------------------
(* Initial states and specifications *)

InitAvail ==
    /\ \E availability \in {<<>>} \cup {<<d>> : d \in DayRecords},
          calendarIntegration \in CalendarIntegrations :
          user = MakeUser(availability, calendarIntegration, DefaultRouting)
    /\ now \in Instants
    /\ availResult = NoAvailResult
    /\ RouterIdle
    /\ WebIdle
    /\ AutoIdle
    /\ RecIdle

\* one call of telnyxService.isUserAvailable(user)
CallIsUserAvailable ==
    /\ ~availResult.called
    /\ availResult' = [called |-> TRUE, value |-> isUserAvailable(user, now)]
    /\ UNCHANGED <<user, webVars, now, routerVars, autoVars, recVars>>

NextAvail == CallIsUserAvailable

SpecAvail == InitAvail /\ [][NextAvail]_vars

\* the users the router is run on: open or closed today, in a meeting at midnight or not
RouterDayRecords ==
    {d \in DayRecords : /\ d.day = "thursday"
                        /\ d.startTime = FormatHHmm(TimeOfDay(0))
                        /\ d.endTime = FormatHHmm(TimeOfDay(1))}

RouterCalendars ==
    {c \in CalendarIntegrations :
        /\ c.enabled /\ c.makeUnavailableDuringEvents
        /\ \A i \in 1..Len(c.events) :
              /\ c.events[i].status = "confirmed" /\ c.events[i].makeUnavailable
              /\ c.events[i].startTime = TimeOfDay(0) /\ c.events[i].endTime = TimeOfDay(0)}

Routings ==
    {[DefaultRouting EXCEPT !.routeToLiveAgent = r, !.liveAgentNumber = a,
                            !.voicemailGreetingUrl = g] :
        r \in BOOLEAN, a \in {"", "+15550002"}, g \in {"", "https://example.org/greeting.mp3"}}

InitRouter ==
    /\ \E availability \in {<<>>} \cup {<<d>> : d \in RouterDayRecords},
          calendarIntegration \in RouterCalendars, routing \in Routings :
          user = MakeUser(availability, calendarIntegration, routing)
    /\ now \in Instants
    /\ availResult = [called |-> FALSE, value |-> FALSE]
    /\ RouterIdle
    /\ WebIdle
    /\ AutoIdle
    /\ RecIdle

NextRouter ==
    \/ HIC_Begin
    \/ HIC_Answer
    \/ HIC_Transfer
    \/ HIC_PlayPrompt
    \/ HIC_Gather
    \/ GatherEnded
    \/ DTMF_Transfer
    \/ VM_PlayAudio
    \/ VM_Speak
    \/ VM_Record
    \/ VM_TimerFires

SpecRouter == InitRouter /\ [][NextRouter]_vars

MsgUnsubscribed == "You have been unsubscribed."
MsgLater == "We will call you back."

\* the condition lists of the automations of the model
ConditionLists ==
    {<<>>,
     <<SimpleCondition("incomingSms")>>,
     <<KeywordCondition(<<>>)>>,
     <<KeywordCondition(<<stop>>)>>,
     <<KeywordCondition(<<hi, STOP>>)>>,
     <<KeywordCondition(<<>>), KeywordCondition(<<stop>>)>>,
     <<KeywordCondition(<<hi>>), SimpleCondition("incomingSms")>>,
     <<SimpleCondition("incomingCall")>>,
     <<SimpleCondition("missedCall")>>,
     <<SimpleCondition("voicemail")>>,
     <<Condition("scheduledTime", <<>>, FormatHHmm(TimeOfDay(0)), {"thursday"}, "")>>,
     <<Condition("scheduledTime", <<>>, FormatHHmm(TimeOfDay(1)), {"friday"}, "")>>,
     <<Condition("availability", <<>>, <<>>, {}, "available")>>,
     <<Condition("availability", <<>>, <<>>, {}, "unavailable")>>,
     <<Condition("availability", <<>>, <<>>, {}, "any")>>}

\* the action lists of the automations of the model
ActionLists ==
    {<<>>,
     <<Action("sendSms", MsgUnsubscribed, 0, "minutes")>>,
     <<Action("sendSms", MsgLater, 5, "minutes")>>,
     <<Action("sendSms", MsgLater, 1, "hours")>>,
     <<Action("sendSms", MsgLater, 25, "days")>>,
     <<Action("sendSms", "", 0, "minutes")>>,
     <<Action("notify", "", 0, "minutes"), Action("tag", "", 0, "minutes")>>,
     <<Action("sendSms", MsgUnsubscribed, 0, "minutes"), Action("sendSms", MsgLater, 5, "minutes")>>}

\* the automations in the collection when the engine starts
InitAuto ==
    /\ user = MakeUser(<<>>, [enabled |-> FALSE, makeUnavailableDuringEvents |-> FALSE,
                              events |-> <<>>],
                       [DefaultRouting EXCEPT !.telnyxPhoneNumber = NumberN])
    /\ now = 0
    /\ availResult = NoAvailResult
    /\ RouterIdle
    /\ WebIdle
    /\ RecIdle
    /\ \E isActive \in BOOLEAN, conditions \in ConditionLists, actions \in ActionLists,
          a2 \in {NoAutomation,
                  Automation("A2", TRUE, OtherNumber,
                             <<SimpleCondition("incomingSms"), SimpleCondition("incomingCall")>>,
                             <<Action("sendSms", MsgLater, 0, "minutes")>>),
                  Automation("A2", TRUE, NumberN, <<SimpleCondition("incomingSms")>>,
                             <<Action("sendSms", MsgLater, 0, "minutes")>>)} :
          automations = [id \in {"a1", "a2"} |->
                            IF id = "a1"
                            THEN Automation("A1", isActive, NumberN, conditions, actions)
                            ELSE a2]
    /\ timers = <<>>
    /\ sent = <<>>
    /\ fired = <<>>
    /\ lastResult = NoResult
    /\ nEvents = 0

NextAuto ==
    \/ ProcessIncomingSms
    \/ ProcessCallEvent
    \/ ProcessScheduledAutomations
    \/ ProcessAvailabilityChange
    \/ TimerFires
    \/ Tick
    \/ DeleteAutomation

SpecAuto == InitAuto /\ [][NextAuto]_vars

\* the Call collection when the webhooks arrive; the status enum of callSchema
InitRec ==
    /\ user = MakeUser(<<>>, [enabled |-> FALSE, makeUnavailableDuringEvents |-> FALSE,
                              events |-> <<>>], DefaultRouting)
    /\ now = 0
    /\ availResult = NoAvailResult
    /\ RouterIdle
    /\ WebIdle
    /\ AutoIdle
    /\ calls \in [CallIds -> {NoCall, Call("initiated"), Call("voicemail"), Call("completed")}]
    /\ voicemails = <<>>
    /\ recordings = [r \in Deliveries |-> NoRecording]

NextRec ==
    \E r \in Deliveries :
        \/ Rec_Receive(r)
        \/ Rec_FindCall(r)
        \/ Rec_UpdateCall(r)
        \/ Rec_SaveVoicemail(r)

SpecRec == InitRec /\ [][NextRec]_vars

InitHook ==
    /\ user = MakeUser(<<>>, [enabled |-> FALSE, makeUnavailableDuringEvents |-> FALSE,
                              events |-> <<>>], DefaultRouting)
    /\ now = 0
    /\ availResult = NoAvailResult
    /\ RouterIdle
    /\ WebIdle
    /\ AutoIdle
    /\ RecIdle

NextHook ==
    \E i \in Hooks :
        \/ Hook_Receive(i)
        \/ Hook_Delegate(i)
        \/ Hook_AutomationSettles(i)
        \/ Hook_Lookup(i)
        \/ Hook_NotificationSettles(i)

SpecHook == InitHook /\ [][NextHook]_vars

\* the instants at which the scheduler may be invoked: two minutes around two times
\* of day, on each day of the model
SchedInstants ==
    {d * MinutesPerDay + TimeOfDay(i) + e : d \in 0..MaxDays, i \in 0..1, e \in 0..1}

ScheduledCondition(time, daysOfWeek) == Condition("scheduledTime", <<>>, time, daysOfWeek, "")

\* the condition lists of the scheduled automations of the model
ScheduledConditionLists ==
    {<<ScheduledCondition(FormatHHmm(TimeOfDay(0)), {"thursday"})>>,
     <<ScheduledCondition(FormatHHmm(TimeOfDay(1)), {"friday"})>>,
     <<ScheduledCondition(FormatHHmm(TimeOfDay(1)), {"thursday", "friday"})>>,
     <<ScheduledCondition(FormatHmm(TimeOfDay(1)), {"thursday", "friday"})>>,
     <<ScheduledCondition(FormatHHmm(TimeOfDay(0)), {"thursday"}),
       ScheduledCondition(FormatHHmm(TimeOfDay(1)), {"friday"})>>,
     <<SimpleCondition("incomingSms")>>}

\* the collection when the scheduler starts, at any of the instants
InitSched ==
    /\ user = MakeUser(<<>>, [enabled |-> FALSE, makeUnavailableDuringEvents |-> FALSE,
                              events |-> <<>>],
                       [DefaultRouting EXCEPT !.telnyxPhoneNumber = NumberN])
    /\ now \in SchedInstants
    /\ availResult = NoAvailResult
    /\ RouterIdle
    /\ WebIdle
    /\ RecIdle
    /\ \E isActive \in BOOLEAN, conditions \in ScheduledConditionLists :
          automations = [id \in {"a1", "a2"} |->
                            IF id = "a1"
                            THEN Automation("A1", isActive, NumberN, conditions,
                                            <<Action("notify", "", 0, "minutes")>>)
                            ELSE NoAutomation]
    /\ timers = <<>>
    /\ sent = <<>>
    /\ fired = <<>>
    /\ lastResult = NoResult
    /\ nEvents = 0

\* the clock moves on while the scheduler is not invoked
TimePasses ==
    /\ \E t \in SchedInstants : t > now /\ now' = t
    /\ UNCHANGED <<user, webVars, availResult, routerVars, automations, timers, sent, fired,
                   lastResult, nEvents, recVars>>

NextSched ==
    \/ ProcessScheduledAutomations
    \/ TimePasses

SpecSched == InitSched /\ [][NextSched]_vars

AvailabilityCondition(availabilityStatus) ==
    Condition("availability", <<>>, <<>>, {}, availabilityStatus)

\* the condition lists of the availability automations of the model; conditionSchema
\* keeps parameters.availabilityStatus on a condition of any type
AvailabilityConditionLists ==
    {<<>>,
     <<SimpleCondition("incomingSms")>>,
     <<AvailabilityCondition("available")>>,
     <<AvailabilityCondition("unavailable")>>,
     <<AvailabilityCondition("any")>>,
     <<AvailabilityCondition("available"), AvailabilityCondition("unavailable")>>,
     <<AvailabilityCondition("unavailable"),
       Condition("keywordSms", <<hi>>, <<>>, {}, "available")>>}

\* the users and the collection when an availability change is processed
InitAvailChange ==
    /\ \E number \in {NumberN, ""} :
          user = MakeUser(<<>>, [enabled |-> FALSE, makeUnavailableDuringEvents |-> FALSE,
                                 events |-> <<>>],
                          [DefaultRouting EXCEPT !.telnyxPhoneNumber = number])
    /\ now = 0
    /\ availResult = NoAvailResult
    /\ RouterIdle
    /\ WebIdle
    /\ RecIdle
    /\ \E isActive \in BOOLEAN, conditions \in AvailabilityConditionLists,
          actions \in {<<Action("notify", "", 0, "minutes")>>,
                       <<Action("sendSms", MsgLater, 5, "minutes")>>},
          a2 \in {NoAutomation,
                  Automation("A2", TRUE, OtherNumber, <<AvailabilityCondition("any")>>,
                             <<Action("notify", "", 0, "minutes")>>),
                  Automation("A2", TRUE, NumberN, <<AvailabilityCondition("available")>>,
                             <<Action("notify", "", 0, "minutes")>>)} :
          automations = [id \in {"a1", "a2"} |->
                            IF id = "a1"
                            THEN Automation("A1", isActive, NumberN, conditions, actions)
                            ELSE a2]
    /\ timers = <<>>
    /\ sent = <<>>
    /\ fired = <<>>
    /\ lastResult = NoResult
    /\ nEvents = 0

NextAvailChange == ProcessAvailabilityChange

SpecAvailChange == InitAvailChange /\ [][NextAvailChange]_vars

Hello == <<"H", "i", " ">>

\* SmsTemplate.content of the templates of the model
TemplateContents ==
    {<<>>,
     Hello,
     Hello \o TemplateKeys[1],
     Hello \o TemplateKeys[2] \o <<"!">>,
     Hello \o TemplateKeys[8] \o <<":", " ">> \o TemplateKeys[9],
     TemplateKeys[9] \o <<" ">> \o TemplateKeys[9],
     Hello \o OPEN \o <<"n", "o", "t", ".", "a", ".", "v", "a", "r", "i", "a", "b", "l", "e">> \o CLOSE,
     Hello \o OPEN \o <<"u", "s", "e", "r", "_", "n", "a", "m", "e">> \o CLOSE,
     Hello \o OPEN \o <<"d", "a", "t", "e">> \o <<"}">>,
     Hello \o OPEN \o <<"D", "a", "t", "e">> \o CLOSE}

\* the templates and contexts processTemplate is called with
InitTemplate ==
    /\ user = MakeUser(<<>>, [enabled |-> FALSE, makeUnavailableDuringEvents |-> FALSE,
                              events |-> <<>>], DefaultRouting)
    /\ now = 0
    /\ availResult = NoAvailResult
    /\ RouterIdle
    /\ HooksIdle
    /\ SmsIdle
    /\ CallLogIdle
    /\ SyncIdle
    /\ ProcIdle
    /\ ToggleIdle
    /\ AutoIdle
    /\ RecIdle
    /\ \E content \in TemplateContents,
          userName \in {<<>>, <<"A", "d", "a">>, <<"A", "d", "a", " ", "L">>},
          from \in {<<>>, <<"+", "1", "5">>},
          messageText \in {<<>>, STOP, <<"$", "&">>, <<"a", "$", "$", "b">>} :
          tpl = [NoTemplate EXCEPT !.content = content,
                                   !.context = TemplateContext(userName, from, messageText)]

NextTemplate == Render

SpecTemplate == InitTemplate /\ [][NextTemplate]_vars

\* the users whose number receives the messages, at the instants of the model
InitSms ==
    /\ \E availability \in {<<>>} \cup {<<d>> : d \in RouterDayRecords},
          calendarIntegration \in RouterCalendars :
          user = MakeUser(availability, calendarIntegration,
                          [DefaultRouting EXCEPT !.telnyxPhoneNumber = NumberN])
    /\ now \in Instants
    /\ availResult = NoAvailResult
    /\ RouterIdle
    /\ WebIdle
    /\ AutoIdle
    /\ RecIdle

NextSms == HandleIncomingSMS

SpecSms == InitSms /\ [][NextSms]_vars

\* one call to the number of a user, from its call.initiated webhook to its
\* call.recording.saved webhook
InitCall ==
    /\ \E availability \in {<<>>} \cup {<<d>> : d \in RouterDayRecords},
          routing \in {r \in Routings : /\ r.voicemailGreetingUrl = ""
                                        /\ r.routeToLiveAgent = (r.liveAgentNumber # "")} :
          user = MakeUser(availability,
                          [enabled |-> FALSE, makeUnavailableDuringEvents |-> FALSE,
                           events |-> <<>>],
                          [routing EXCEPT !.telnyxPhoneNumber = NumberN])
    /\ now = 0
    /\ availResult = NoAvailResult
    /\ hic = [HicIdle EXCEPT !.pc = NOT_INVOKED]
    /\ dtmf = DtmfIdle
    /\ commands = <<>>
    /\ vmTimer = FALSE
    /\ WebIdle
    /\ AutoIdle
    /\ RecIdle

\* Rec_SaveVoicemail is left out: no step of this specification stores the status
\* 'voicemail', so no recording reaches it
NextCall ==
    \/ Call_Receive
    \/ Call_Return
    \/ HIC_Begin
    \/ HIC_Answer
    \/ HIC_Transfer
    \/ HIC_PlayPrompt
    \/ HIC_Gather
    \/ GatherEnded
    \/ DTMF_Transfer
    \/ VM_PlayAudio
    \/ VM_Speak
    \/ VM_Record
    \/ VM_TimerFires
    \/ Rec_Receive(1)
    \/ Rec_FindCall(1)
    \/ Rec_UpdateCall(1)

SpecCall == InitCall /\ [][NextCall]_vars

\* a user with or without calendar integration and with or without a cached event
InitSync ==
    /\ \E enabled \in BOOLEAN, events \in {<<>>} \cup {<<e>> : e \in SyncEvents} :
          user = MakeUser(<<>>, [enabled |-> enabled, makeUnavailableDuringEvents |-> TRUE,
                                 events |-> events], DefaultRouting)
    /\ now \in Instants
    /\ availResult = NoAvailResult
    /\ RouterIdle
    /\ HooksIdle
    /\ TplIdle
    /\ SmsIdle
    /\ CallLogIdle
    /\ ProcIdle
    /\ ToggleIdle
    /\ syncs = [i \in Syncs |-> NoSync]
    /\ \E type \in ProviderTypes : calMeta = [providerType |-> type, lastSyncTime |-> -1]
    /\ AutoIdle
    /\ RecIdle

NextSync ==
    \E i \in Syncs :
        \/ Sync_Begin(i)
        \/ Sync_Fetch(i)
        \/ Sync_Update(i)

SpecSync == InitSync /\ [][NextSync]_vars

\* an active automation of the number with a delayed action, and a clock that runs on
InitRestart ==
    /\ user = MakeUser(<<>>, [enabled |-> FALSE, makeUnavailableDuringEvents |-> FALSE,
                              events |-> <<>>],
                       [DefaultRouting EXCEPT !.telnyxPhoneNumber = NumberN])
    /\ now = 0
    /\ availResult = NoAvailResult
    /\ RouterIdle
    /\ WebIdle
    /\ RecIdle
    /\ \E conditions \in {<<SimpleCondition("incomingSms")>>, <<KeywordCondition(<<hi>>)>>},
          actions \in {a \in ActionLists :
                          \E k \in 1..Len(a) : a[k].delay.value > 0 /\ a[k].delay.value < 25} :
          automations = [id \in {"a1", "a2"} |->
                            IF id = "a1"
                            THEN Automation("A1", TRUE, NumberN, conditions, actions)
                            ELSE NoAutomation]
    /\ timers = <<>>
    /\ sent = <<>>
    /\ fired = <<>>
    /\ lastResult = NoResult
    /\ nEvents = 0

NextRestart ==
    \/ ProcessIncomingSms
    \/ TimerFires
    \/ Tick
    \/ TimePasses
    \/ Restart

SpecRestart == InitRestart /\ [][NextRestart]_vars

\* the engine while the toggle endpoint is used
NextToggle ==
    \/ ProcessIncomingSms
    \/ TimerFires
    \/ Tick
    \/ ToggleAutomationStatus

SpecToggle == InitAuto /\ [][NextToggle]_vars

\* handleIncomingCall for the users of InitRouter, with API-key updates at any await
NextClient ==
    \/ HIC_Begin
    \/ HIC_Answer
    \/ HIC_Transfer
    \/ HIC_PlayPrompt
    \/ HIC_Gather
    \/ ReinitializeClient

SpecClient == InitRouter /\ [][NextClient]_vars

-----------------------------------------------------------------------------
(* Claims on the Availability Oracle *)

\* the time of day as a number, for zero-padded "HH:mm" strings
MinuteOfDay(s) == (s[1] * 10 + s[2]) * 60 + s[4] * 10 + s[5]

IsZeroPadded(s) == Len(s) = 5 /\ s[3] = COLON

InActiveMeeting ==
    /\ user.calendarIntegration.enabled
    /\ user.calendarIntegration.makeUnavailableDuringEvents
    /\ \E i \in 1..Len(user.calendarIntegration.events) :
          LET e == user.calendarIntegration.events[i]
          IN  e.status # "cancelled" /\ e.makeUnavailable /\ e.startTime <= now /\ now <= e.endTime

\* the first day-record of the current weekday, as a set of at most one record
TodayRecord ==
    LET found == {i \in 1..Len(user.availability) : user.availability[i].day = FormatDay(now)}
    IN  IF found = {} THEN {} ELSE {user.availability[Min(found)]}

ScheduleAllows ==
    \E d \in TodayRecord :
        /\ d.isAvailable
        /\ IsZeroPadded(d.startTime) /\ IsZeroPadded(d.endTime)
        /\ MinuteOfDay(d.startTime) <= now % MinutesPerDay
        /\ now % MinutesPerDay <= MinuteOfDay(d.endTime)

\* C3: while a not-cancelled event with makeUnavailable = true covers the current
\* instant, and calendar integration is enabled with makeUnavailableDuringEvents
\* set, isUserAvailable returns false, also when the weekly schedule allows the time.
C3_MeetingTakesPrecedence ==
    (availResult.called /\ InActiveMeeting) => availResult.value = FALSE

\* C3 witness: the oracle was asked during a tentative meeting inside the
\* scheduled hours of the day, and answered false.
C3_Witness ==
    /\ availResult.called
    /\ InActiveMeeting
    /\ ScheduleAllows
    /\ user.calendarIntegration.events[1].status = "tentative"
    /\ ~availResult.value

\* C4: when the day-record of the current weekday has isAvailable = false, or there
\* is no day-record for the current weekday, isUserAvailable returns false whatever
\* the time of day, the window and the calendar state.
C4_DayOffIsUnavailable ==
    (availResult.called /\ \A d \in TodayRecord : ~d.isAvailable) => availResult.value = FALSE

\* C4 witness: the day-record is switched off, its window covers the current time,
\* no meeting is in progress, and the oracle answered false.
C4_Witness ==
    /\ availResult.called
    /\ \E d \in TodayRecord :
          /\ ~d.isAvailable
          /\ IsZeroPadded(d.startTime) /\ IsZeroPadded(d.endTime)
          /\ MinuteOfDay(d.startTime) <= now % MinutesPerDay
          /\ now % MinutesPerDay <= MinuteOfDay(d.endTime)
    /\ ~InActiveMeeting
    /\ ~availResult.value

\* C5: past the meeting check, with an available day-record whose startTime and
\* endTime are zero-padded HH:MM, isUserAvailable returns exactly
\* startTime <= timeOfDay <= endTime (both bounds inclusive); so a window with
\* startTime > endTime yields false at every time of day.
C5_WindowIsInclusiveAndNeverWraps ==
    availResult.called =>
        \A d \in TodayRecord :
            (d.isAvailable /\ IsZeroPadded(d.startTime) /\ IsZeroPadded(d.endTime)) =>
                /\ ~InActiveMeeting =>
                      (availResult.value <=>
                          /\ MinuteOfDay(d.startTime) <= now % MinutesPerDay
                          /\ now % MinutesPerDay <= MinuteOfDay(d.endTime))
                /\ MinuteOfDay(d.startTime) > MinuteOfDay(d.endTime) => ~availResult.value

\* C5 witness: the oracle answered true exactly at the end of the window.
C5_Witness ==
    /\ availResult.called
    /\ availResult.value
    /\ \E d \in TodayRecord :
          /\ IsZeroPadded(d.startTime) /\ IsZeroPadded(d.endTime)
          /\ MinuteOfDay(d.endTime) = now % MinutesPerDay
          /\ MinuteOfDay(d.startTime) < MinuteOfDay(d.endTime)

\* C5, the midnight-crossing case: the oracle answered false inside a window
\* that starts in the evening and ends the next morning.
C5_WitnessMidnight ==
    /\ availResult.called
    /\ ~availResult.value
    /\ ~InActiveMeeting
    /\ \E d \in TodayRecord :
          /\ d.isAvailable
          /\ IsZeroPadded(d.startTime) /\ IsZeroPadded(d.endTime)
          /\ MinuteOfDay(d.startTime) > MinuteOfDay(d.endTime)
          /\ now % MinutesPerDay <= MinuteOfDay(d.endTime)

-----------------------------------------------------------------------------
(* Claims on the Call Router *)

AllCommandsOk == \A i \in 1..Len(commands) : commands[i].ok

TransferTo(number) == Command("transfer", number, RING_TIMEOUT_SECONDS, "", NoUrl, TRUE)

\* C1: handleIncomingCall returns exactly one action, by priority: 'forwarded'
\* (transfer to user.phoneNumber, 15 s) when isUserAvailable(user); otherwise
\* 'routed_to_agent' (transfer to user.liveAgentNumber, 15 s) when routeToLiveAgent
\* is true and liveAgentNumber is set; otherwise 'unavailable_prompt'; and an
\* invocation whose commands all succeeded never ends without an action.
C1_OneActionByPriority ==
    /\ hic.pc = "returned" =>
          /\ hic.action =
                (IF isUserAvailable(user, now) THEN "forwarded"
                 ELSE IF user.routeToLiveAgent /\ user.liveAgentNumber # ""
                      THEN "routed_to_agent"
                 ELSE "unavailable_prompt")
          /\ hic.action = "forwarded" =>
                Len(commands) >= 2 /\ commands[2] = TransferTo(user.phoneNumber)
          /\ hic.action = "routed_to_agent" =>
                Len(commands) >= 2 /\ commands[2] = TransferTo(user.liveAgentNumber)
    /\ hic.pc # "returned" => hic.action = ""
    /\ hic.pc = "threw" => ~AllCommandsOk

\* C1 witness: an unavailable user with live-agent routing got 'routed_to_agent'.
C1_Witness ==
    /\ hic.pc = "returned"
    /\ hic.action = "routed_to_agent"
    /\ ~isUserAvailable(user, now)
    /\ AllCommandsOk

CentralTransferIssued ==
    \E i \in 1..Len(commands) :
        commands[i].command_id = "transfer" /\ commands[i].to = CENTRAL_FORWARDING_NUMBER

GreetingIssued ==
    \E i \in 1..Len(commands) :
        commands[i].command_id = "play_audio" /\ commands[i].audio_url = greetingUrl(user)

DtmfDispatched == dtmf.pc \notin {"idle", "ignored"}

\* C2: in handleUnavailableDTMF digit '1' goes to the Voicemail Recorder, digit '2'
\* issues a transfer to the central forwarding number and returns
\* 'forwarded_to_central', and every other digit and a gather without a digit go to
\* the Voicemail Recorder; for every digit exactly one of the two happens.
C2_DtmfBranches ==
    /\ DtmfDispatched =>
          /\ dtmf.digit = "2" => ~dtmf.toVoicemail /\ ~GreetingIssued
          /\ dtmf.digit # "2" => dtmf.toVoicemail /\ ~CentralTransferIssued
    /\ dtmf.pc = "returned" =>
          /\ dtmf.digit = "2" => dtmf.action = "forwarded_to_central" /\ CentralTransferIssued
          /\ dtmf.digit # "2" => dtmf.action = "voicemail" /\ GreetingIssued
    /\ (CentralTransferIssued \/ dtmf.toVoicemail) => DtmfDispatched

\* C2 witness: a gather that timed out (no digit) ended in the Voicemail Recorder.
C2_Witness ==
    /\ dtmf.pc = "returned"
    /\ dtmf.digit = "undefined"
    /\ dtmf.toVoicemail
    /\ dtmf.action = "voicemail"

-----------------------------------------------------------------------------
(* Claims on the SMS Automation Engine *)

Names(seq) == {seq[k] : k \in 1..Len(seq)}

\* C6: an automation whose conditions list is empty is never triggered by any of
\* the four entry points: none of its actions is executed or scheduled, it is not
\* in triggeredAutomations, and its statistics are unchanged.
C6_NoConditionsNeverTriggers ==
    \A id \in DOMAIN automations :
        (automations[id].exists /\ Len(automations[id].conditions) = 0) =>
            /\ automations[id].statistics = NoStatistics
            /\ automations[id].name \notin Names(lastResult.triggeredAutomations)
            /\ \A i \in 1..Len(sent) : sent[i].by # id
            /\ \A i \in 1..Len(timers) : timers[i].automationId # id
            /\ \A i \in 1..Len(fired) : fired[i].timer.automationId # id

\* C6 witness: a call.initiated event for the number of an active automation that
\* has actions but no conditions was processed, and nothing was triggered.
C6_Witness ==
    /\ lastResult.op = "call"
    /\ lastResult.input.eventType = "call.initiated"
    /\ lastResult.input.to = NumberN
    /\ automations["a1"].exists
    /\ automations["a1"].isActive
    /\ automations["a1"].phoneNumber = NumberN
    /\ Len(automations["a1"].conditions) = 0
    /\ Len(automations["a1"].actions) > 0
    /\ ~lastResult.processed
    /\ Len(sent) = 0

\* keyword is a substring of text when letter case is ignored
CaseInsensitiveSubstring(keyword, text) ==
    \E offset \in 0..(Len(text) - Len(keyword)) :
        \A j \in 1..Len(keyword) :
            LowerCaseChar(text[offset + j]) = LowerCaseChar(keyword[j])

C8_DelayedActionRunsAfterItsDelay ==
    /\ \A k \in 1..Len(lastResult.results) :
          \A id \in DOMAIN automations :
              (automations[id].exists /\ automations[id].name = lastResult.triggeredAutomations[k]) =>
                  \A i \in 1..Len(automations[id].actions) :
                      automations[id].actions[i].delay.value > 0 =>
                          lastResult.results[k][i] = "scheduled"
    /\ \A i \in 1..Len(fired) :
          /\ fired[i].executed =>
                fired[i].at >= fired[i].timer.armedAt + delayMinutes(fired[i].timer.action.delay)
          /\ ~fired[i].active => ~fired[i].executed /\ fired[i].sends = <<>>

\* C9: an inbound 'STOP' from S to N, with exactly one active automation on N whose
\* condition is keywordSms 'stop' and whose action is a non-delayed sendSms with the
\* literal message M, returns {processed: true, triggeredAutomations: [name],
\* total: 1} and issues exactly one send with from = N, to = S and text = M.
C9_StopRoundTrip ==
    [][(/\ nEvents' = nEvents + 1
        /\ lastResult'.op = "sms"
        /\ lastResult'.input.text = STOP
        /\ lastResult'.input.to = NumberN
        /\ lastResult'.input.from = SenderS
        /\ automations["a1"].exists
        /\ automations["a1"].isActive
        /\ automations["a1"].phoneNumber = NumberN
        /\ automations["a1"].conditions = <<KeywordCondition(<<stop>>)>>
        /\ automations["a1"].actions = <<Action("sendSms", MsgUnsubscribed, 0, "minutes")>>
        /\ ~(automations["a2"].exists /\ automations["a2"].isActive
             /\ automations["a2"].phoneNumber = NumberN))
       => /\ lastResult'.processed
          /\ lastResult'.triggeredAutomations = <<"A1">>
          /\ lastResult'.total = 1
          /\ Len(lastResult'.sends) = 1
          /\ lastResult'.sends[1].from = NumberN
          /\ lastResult'.sends[1].to = SenderS
          /\ lastResult'.sends[1].text = MsgUnsubscribed
          /\ sent' = sent \o lastResult'.sends]_vars

\* C9 witness: the round trip happened and the one message is in the outbox.
C9_Witness ==
    /\ lastResult.op = "sms"
    /\ lastResult.input.text = STOP
    /\ lastResult.input.to = NumberN
    /\ automations["a1"].exists
    /\ automations["a1"].conditions = <<KeywordCondition(<<stop>>)>>
    /\ automations["a1"].actions = <<Action("sendSms", MsgUnsubscribed, 0, "minutes")>>
    /\ lastResult.triggeredAutomations = <<"A1">>
    /\ lastResult.total = 1
    /\ sent = <<Message(NumberN, SenderS, MsgUnsubscribed, TRUE, "a1")>>

-----------------------------------------------------------------------------
(* Claims on the recording webhook *)

VoicemailsOf(c) == {i \in 1..Len(voicemails) : voicemails[i].callId = c}

-----------------------------------------------------------------------------
(* Claims on the webhook controller *)

-----------------------------------------------------------------------------
(* Claims on the Call Router and Voicemail Recorder: failures and sendToVoicemail *)

\* the commands issued by sendToVoicemail: those after answer, play_audio and gather
VmCommands == IF dtmf.toVoicemail THEN SubSeq(commands, 4, Len(commands)) ELSE <<>>

\* C12: the failure of any call-control command (answer, transfer, play-audio, gather,
\* start-recording) is thrown to the caller of the operation, so when no operation
\* threw and nothing is pending no command has failed; and a failed command is not
\* issued again.
C12_CommandFailureIsThrown ==
    /\ (/\ hic.pc \in {"idle", "returned"}
        /\ dtmf.pc \in {"idle", "ignored", "returned"}
        /\ ~vmTimer)
       => \A k \in 1..Len(commands) : commands[k].ok
    /\ \A k \in 1..Len(commands) :
          ~commands[k].ok =>
              \A j \in (k + 1)..Len(commands) :
                  [commands[j] EXCEPT !.ok = FALSE] # commands[k]

IsRecordStart(c) ==
    /\ c.command_id = "record_start"
    /\ c.format = "mp3"
    /\ c.channels = "single"
    /\ c.play_beep

RecordStarts == {k \in 1..Len(VmCommands) : VmCommands[k].command_id = "record_start"}

\* C20: sendToVoicemail first issues play-audio for the greeting URL (the user's own
\* if set, otherwise the default derived from the first name); it issues speak with
\* user.voicemailGreeting if and only if play-audio failed; one start-recording (mp3,
\* single channel, beep) is issued, after the greeting command: by the 1-second timer
\* on the audio path, right after speak on the speech path; it returns 'voicemail'.
C20_GreetingThenRecording ==
    LET vm == VmCommands
    IN  /\ dtmf.toVoicemail /\ dtmf.pc # "vm_play" =>
              /\ Len(vm) >= 1
              /\ vm[1].command_id = "play_audio"
              /\ vm[1].audio_url =
                    IF user.voicemailGreetingUrl # ""
                    THEN [kind |-> "custom", file |-> <<user.voicemailGreetingUrl>>]
                    ELSE [kind |-> "github", file |-> <<Head(user.name), "Voicemail.mp3">>]
        /\ \A k \in 1..Len(vm) :
              vm[k].command_id = "speak" =>
                  /\ k = 2
                  /\ ~vm[1].ok
                  /\ vm[k].audio_url = [kind |-> "text", file |-> <<user.voicemailGreeting>>]
        /\ (Len(vm) >= 1 /\ ~vm[1].ok /\ dtmf.pc # "vm_speak") =>
              (Len(vm) >= 2 /\ vm[2].command_id = "speak")
        /\ Cardinality(RecordStarts) <= 1
        /\ \A k \in RecordStarts :
              /\ IsRecordStart(vm[k])
              /\ k = Len(vm)
              /\ vm[k - 1].command_id \in {"play_audio", "speak"}
              /\ vm[k - 1].ok
              /\ vm[1].ok => ~vmTimer /\ dtmf.pc = "returned"
        /\ (Len(vm) >= 1 /\ vm[1].ok) => (vmTimer <=> RecordStarts = {})
        /\ (dtmf.toVoicemail /\ dtmf.pc = "returned") =>
              /\ dtmf.action = "voicemail"
              /\ ~vmTimer => Cardinality(RecordStarts) = 1

\* C20 witness, audio path: the greeting played, the timer fired and the recording
\* was started.
C20_Witness ==
    /\ dtmf.toVoicemail
    /\ dtmf.pc = "returned"
    /\ ~vmTimer
    /\ Len(VmCommands) = 2
    /\ VmCommands[1].command_id = "play_audio"
    /\ VmCommands[1].audio_url.kind = "custom"
    /\ VmCommands[2].command_id = "record_start"

\* C20 witness, speech path: play-audio failed, speak and start-recording followed.
C20_WitnessSpeech ==
    /\ dtmf.toVoicemail
    /\ dtmf.pc = "returned"
    /\ Len(VmCommands) = 3
    /\ ~VmCommands[1].ok
    /\ VmCommands[2].command_id = "speak"
    /\ VmCommands[3].command_id = "record_start"

-----------------------------------------------------------------------------
(* Claims on the SMS Automation Engine: call events, schedules, availability *)

\* the one condition type of a call event, "" for the events that have none
CallConditionType(input) ==
    CASE input.eventType = "call.initiated" -> "incomingCall"
      [] input.eventType = "call.hangup" /\ input.hangupCause = "unanswered" -> "missedCall"
      [] input.eventType = "call.recording.saved" /\ input.isVoicemail -> "voicemail"
      [] OTHER -> ""

\* C13: processCallEvent maps call.initiated to incomingCall, call.hangup with cause
\* 'unanswered' to missedCall and call.recording.saved flagged isVoicemail to
\* voicemail, and triggers the active automations of the number that have a condition
\* of that one type; every other event returns processed: false and executes no
\* action and changes no statistics.
C13_CallEventMapsToOneConditionType ==
    [][(nEvents' = nEvents + 1 /\ lastResult'.op = "call") =>
          LET input == lastResult'.input
              conditionType == CallConditionType(input)
          IN  /\ conditionType = "" =>
                    /\ ~lastResult'.processed
                    /\ lastResult'.triggeredAutomations = <<>>
                    /\ lastResult'.sends = <<>>
                    /\ UNCHANGED <<automations, timers, sent, fired>>
              /\ conditionType # "" =>
                    \A id \in DOMAIN automations :
                        automations[id].exists =>
                            (automations[id].name \in Names(lastResult'.triggeredAutomations)
                             <=> /\ automations[id].isActive
                                 /\ automations[id].phoneNumber = input.to
                                 /\ \E i \in 1..Len(automations[id].conditions) :
                                       automations[id].conditions[i].type = conditionType)
      ]_vars

\* C13 witness: a hangup with cause normal_clearing on the number of an active
\* missedCall automation was processed and triggered nothing.
C13_Witness ==
    /\ lastResult.op = "call"
    /\ lastResult.input.eventType = "call.hangup"
    /\ lastResult.input.hangupCause = "normal_clearing"
    /\ lastResult.input.to = NumberN
    /\ automations["a1"].exists
    /\ automations["a1"].isActive
    /\ automations["a1"].conditions = <<SimpleCondition("missedCall")>>
    /\ Len(automations["a1"].actions) > 0
    /\ ~lastResult.processed
    /\ automations["a1"].statistics = NoStatistics
    /\ sent = <<>>

\* C13 witness: the unanswered hangup did trigger the missedCall automation.
C13_WitnessMissedCall ==
    /\ lastResult.op = "call"
    /\ lastResult.input.hangupCause = "unanswered"
    /\ automations["a1"].conditions = <<SimpleCondition("missedCall")>>
    /\ lastResult.triggeredAutomations = <<"A1">>

\* C14: processScheduledAutomations triggers an active automation only when it is
\* invoked in the minute whose HH:MM equals the time of a scheduledTime condition of
\* the automation and whose weekday is in that condition's daysOfWeek; an invocation
\* in any other minute (a later one the same day included) does not trigger it.
C14_ScheduledOnlyInItsMinute ==
    [][(nEvents' = nEvents + 1 /\ lastResult'.op = "scheduled") =>
          \A id \in DOMAIN automations :
              (automations[id].exists
               /\ automations[id].name \in Names(lastResult'.triggeredAutomations))
              => /\ automations[id].isActive
                 /\ \E i \in 1..Len(automations[id].conditions) :
                       LET c == automations[id].conditions[i]
                       IN  /\ c.type = "scheduledTime"
                           /\ c.time = FormatHHmm(now)
                           /\ FormatDay(now) \in c.daysOfWeek
      ]_vars

\* C15: processAvailabilityChange(userId, isAvailable) triggers exactly the active
\* automations on the user's number that have an availability condition whose
\* availabilityStatus is the new status ('available' / 'unavailable') or 'any'; an
\* unknown user or a user without a number yields processed: false and no action.
C15_AvailabilityTriggersMatchingStatus ==
    [][(nEvents' = nEvents + 1 /\ lastResult'.op = "availability") =>
          LET input == lastResult'.input
              found == input.userId = "u1" /\ user.telnyxPhoneNumber # ""
              status == IF input.isAvailable THEN "available" ELSE "unavailable"
          IN  /\ ~found =>
                    /\ ~lastResult'.processed
                    /\ lastResult'.triggeredAutomations = <<>>
                    /\ UNCHANGED <<automations, timers, sent, fired>>
              /\ found =>
                    \A id \in DOMAIN automations :
                        automations[id].exists =>
                            (automations[id].name \in Names(lastResult'.triggeredAutomations)
                             <=> /\ automations[id].isActive
                                 /\ automations[id].phoneNumber = user.telnyxPhoneNumber
                                 /\ \E i \in 1..Len(automations[id].conditions) :
                                       LET c == automations[id].conditions[i]
                                       IN  /\ c.type = "availability"
                                           /\ c.availabilityStatus \in {status, "any"})
      ]_vars

-----------------------------------------------------------------------------
(* Claims on template rendering *)

\* the placeholder key is written at position i of content
KeyAt(key, content, i) ==
    /\ i + Len(key) - 1 <= Len(content)
    /\ SubSeq(content, i, i + Len(key) - 1) = key

\* the positions of content at which a placeholder of the variable table starts
KnownPlaceholders(content) ==
    {i \in 1..Len(content) : \E k \in 1..Len(TemplateKeys) : KeyAt(TemplateKeys[k], content, i)}

\* the text of content before its first placeholder of the table
TextBeforePlaceholders(content) ==
    IF KnownPlaceholders(content) = {} THEN content
    ELSE SubSeq(content, 1, Min(KnownPlaceholders(content)) - 1)

\* C16: rendering replaces only the placeholders of the fixed variable table: a
\* template without any of them (one with a placeholder that is not in the table
\* included) is rendered unchanged, the text before the first placeholder of the table
\* is unchanged, and rendering never fails.
C16_OnlyKnownPlaceholdersReplaced ==
    tpl.done =>
        /\ ~tpl.threw
        /\ KnownPlaceholders(tpl.content) = {} => tpl.rendered = tpl.content
        /\ LET text == TextBeforePlaceholders(tpl.content)
           IN  /\ Len(tpl.rendered) >= Len(text)
               /\ SubSeq(tpl.rendered, 1, Len(text)) = text

-----------------------------------------------------------------------------
(* Claims on the SMS controller *)

\* C17: for a message.received event to the number of a user the inbound SMS record
\* is stored; when isUserAvailable(user) is false exactly one auto-reply is sent from
\* the user's number to the original sender and recorded as an outbound SMS, and when
\* the user is available no auto-reply is sent.
C17_AutoReplyFollowsAvailability ==
    [][Len(smsLog') = Len(smsLog) + 1 =>
          LET request == smsLog'[Len(smsLog')]
              event == request.event
              Outbound(store) == {i \in 1..Len(store) : store[i].direction = "outbound"}
          IN  (event.eventType = "message.received" /\ event.to = user.telnyxPhoneNumber) =>
                  /\ \E i \in 1..Len(smsStore') :
                        /\ smsStore'[i].direction = "inbound"
                        /\ smsStore'[i].telnyxMessageId = event.id
                        /\ smsStore'[i].from = event.from
                        /\ smsStore'[i].to = event.to
                        /\ smsStore'[i].body = event.text
                  /\ isUserAvailable(user, now) =>
                        /\ replies' = replies
                        /\ Outbound(smsStore') = Outbound(smsStore)
                  /\ (~isUserAvailable(user, now) /\ request.sendOk) =>
                        /\ Len(replies') = Len(replies) + 1
                        /\ replies'[Len(replies')].from = event.to
                        /\ replies'[Len(replies')].to = event.from
                        /\ Cardinality(Outbound(smsStore')) = Cardinality(Outbound(smsStore)) + 1
                        /\ smsStore'[Len(smsStore')].direction = "outbound"
                        /\ smsStore'[Len(smsStore')].from = event.to
                        /\ smsStore'[Len(smsStore')].to = event.from
      ]_vars

-----------------------------------------------------------------------------
(* Claims on the statistics of an automation *)

\* C18: when a deferred action has run, the successCount of its automation is
\* incremented if the action completed; if the action failed (its send failed) the
\* errorCount is incremented and the successCount is not.
C18_DeferredActionCountsItsOutcome ==
    [][(Len(fired') = Len(fired) + 1 /\ fired'[Len(fired')].executed) =>
          LET f == fired'[Len(fired')]
              id == f.timer.automationId
              failed == \E k \in 1..Len(f.sends) : ~f.sends[k].ok
              before == automations[id].statistics
              after == automations'[id].statistics
          IN  IF failed
              THEN /\ after.errorCount = before.errorCount + 1
                   /\ after.successCount = before.successCount
              ELSE /\ after.successCount = before.successCount + 1
                   /\ after.errorCount = before.errorCount
      ]_vars

\* the number of times the name of the automation id is in a triggeredAutomations list
TimesReported(id, triggeredAutomations) ==
    Cardinality({k \in 1..Len(triggeredAutomations) :
                    triggeredAutomations[k] = automations[id].name})

C19_WitnessScheduled ==
    /\ lastResult.triggeredAutomations = <<"A1">>
    /\ lastResult.sends = <<>>
    /\ Len(timers) = 1
    /\ automations["a1"].exists
    /\ automations["a1"].statistics.timesTriggered = 1
    /\ automations["a1"].statistics.successCount = 1

-----------------------------------------------------------------------------
(* Claims on the command sequence of handleIncomingCall *)

\* the commands issued by handleIncomingCall, before any command of the DTMF handler
HicCommands == IF DtmfDispatched THEN SubSeq(commands, 1, 3) ELSE commands

\* C21: handleIncomingCall issues answer first in every branch and each later command
\* only after the previous one succeeded: forwarded and routed_to_agent issue answer
\* and one transfer, unavailable_prompt issues answer, play_audio of the fixed prompt
\* and a gather with max_digits 1, timeout 5 s and client state 'unavailable-flow';
\* after a command that failed no later command is issued.
C21_CommandsInOrder ==
    LET cs == HicCommands
    IN  /\ Len(cs) >= 1 => cs[1].command_id = "answer"
        /\ \A i \in 2..Len(cs) : cs[i - 1].ok
        /\ hic.pc = "threw" => Len(cs) >= 1 /\ ~cs[Len(cs)].ok
        /\ hic.route \in {"forwarded", "routed_to_agent"} =>
              /\ Len(cs) <= 2
              /\ Len(cs) = 2 => cs[2].command_id = "transfer"
              /\ hic.pc = "returned" => Len(cs) = 2
        /\ hic.route = "unavailable_prompt" =>
              /\ Len(cs) <= 3
              /\ Len(cs) >= 2 =>
                    cs[2].command_id = "play_audio" /\ cs[2].audio_url = UNAVAILABLE_PROMPT_URL
              /\ Len(cs) = 3 =>
                    /\ cs[3].command_id = "gather"
                    /\ cs[3].max_digits = 1
                    /\ cs[3].timeout_secs = 5
                    /\ cs[3].client_state = "unavailable-flow"
              /\ hic.pc = "returned" => Len(cs) = 3

\* C21 witness: the prompt of the unavailable branch failed and no gather was issued
C21_Witness ==
    /\ hic.pc = "threw"
    /\ hic.route = "unavailable_prompt"
    /\ Len(commands) = 2
    /\ commands[1].ok
    /\ ~commands[2].ok

\* the unavailable branch issued its three commands
C21_WitnessPrompt ==
    /\ hic.pc = "returned"
    /\ hic.action = "unavailable_prompt"
    /\ Len(commands) = 3
    /\ AllCommandsOk

-----------------------------------------------------------------------------
(* Claims on the Call records *)

\* C22: for every call.initiated webhook whose destination number belongs to a user a
\* Call record is created and the Call Router is invoked exactly once; for an unknown
\* destination number no record is created and no call-control command is issued.
C22_RecordAndRouterOncePerCall ==
    /\ \A k \in 1..Len(callLog) :
          LET request == callLog[k]
          IN  request.event.event_type = "call.initiated" =>
                  IF request.event.to = user.telnyxPhoneNumber
                  THEN /\ request.created
                       /\ request.routed = 1
                       /\ calls[request.event.call_control_id].exists
                  ELSE ~request.created /\ request.routed = 0
    /\ (\A k \in 1..Len(callLog) : callLog[k].event.to # user.telnyxPhoneNumber) =>
          /\ commands = <<>>
          /\ \A c \in CallIds : ~calls[c].exists

\* C23: a call.answered or call.hangup webhook for a known call changes the stored
\* status of that call, and a recording-saved event sets recordingUrl and the status
\* 'completed'.
C23_EventsMoveTheStatus ==
    [][/\ (/\ Len(callLog') = Len(callLog) + 1
           /\ callLog'[Len(callLog')].event.event_type \in {"call.answered", "call.hangup"}
           /\ calls[callLog'[Len(callLog')].event.call_control_id].exists)
          => calls'[callLog'[Len(callLog')].event.call_control_id].status
                # calls[callLog'[Len(callLog')].event.call_control_id].status
       /\ \A r \in Deliveries :
             (recordings[r].pc = "update" /\ recordings'[r].pc # "update") =>
                 LET c == recordings[r].call_control_id
                 IN  /\ calls'[c].status = "completed"
                     /\ calls'[c].recordingUrl = recordings[r].recordingUrl
      ]_vars

\* C26: when the caller was sent to voicemail through the unavailable flow and a
\* recording-saved event arrives for the call, the status the handler reads for the
\* call is 'voicemail', and once the event is handled the call has a Voicemail record.
C26_VoicemailFlowIsRecorded ==
    \A r \in Deliveries :
        (/\ dtmf.pc = "returned"
         /\ dtmf.action = "voicemail"
         /\ recordings[r].call_control_id = TheCall
         /\ recordings[r].call.exists) =>
            /\ recordings[r].call.status = "voicemail"
            /\ recordings[r].pc = "done" => VoicemailsOf(TheCall) # {}

-----------------------------------------------------------------------------
(* Claims on calendar synchronisation *)

\* C24: when syncUserCalendar returns, the cached event list of the user is exactly
\* the list this invocation fetched, whatever was cached before; an invocation that
\* throws (integration disabled, unknown provider, failed fetch) leaves the cached
\* list and lastSyncTime as they were, and so does every step that is not the update
\* of a successful invocation.
C24_SyncReplacesWholesale ==
    [][/\ \A i \in Syncs :
             /\ (syncs[i].pc # "returned" /\ syncs'[i].pc = "returned") =>
                   /\ user'.calendarIntegration.events = syncs[i].events
                   /\ calMeta'.lastSyncTime = now
             /\ (syncs[i].pc # "threw" /\ syncs'[i].pc = "threw") =>
                   /\ user'.calendarIntegration.events = user.calendarIntegration.events
                   /\ calMeta'.lastSyncTime = calMeta.lastSyncTime
       /\ (\A i \in Syncs : syncs'[i].pc = "returned" => syncs[i].pc = "returned") =>
             /\ user'.calendarIntegration.events = user.calendarIntegration.events
             /\ calMeta'.lastSyncTime = calMeta.lastSyncTime
      ]_vars

\* C24 witness: a sync returned with a fetched list that does not extend the list that
\* was cached, after another sync had stored two events
C24_Witness ==
    \E i \in Syncs, j \in Syncs :
        /\ i # j
        /\ syncs[i].pc = "returned"
        /\ syncs[j].pc = "returned"
        /\ Len(syncs[j].events) = 2
        /\ Len(syncs[i].events) = 1
        /\ user.calendarIntegration.events = syncs[i].events
        /\ calMeta.lastSyncTime = now

\* a sync whose fetch failed, with a cached event still in place
C24_WitnessFailedFetch ==
    \E i \in Syncs :
        /\ syncs[i].pc = "threw"
        /\ user.calendarIntegration.enabled
        /\ calMeta.providerType = "google"
        /\ Len(user.calendarIntegration.events) = 1
        /\ calMeta.lastSyncTime = -1

-----------------------------------------------------------------------------
(* Claims on the restart of the process *)

\* C25: a restart between the trigger and the end of the delay drops the pending
\* timers and touches nothing else: no message is sent, no callback runs and no
\* statistic changes; a callback only ever runs for a timer that is pending in the
\* running process, so the dropped actions never execute, and the counters of an
\* automation account for its triggers and its executed callbacks only.
C25_RestartDropsPendingTimers ==
    [][/\ Len(lost') > Len(lost) =>
             /\ timers' = <<>>
             /\ automations' = automations
             /\ sent' = sent
             /\ fired' = fired
       /\ Len(fired') = Len(fired) + 1 =>
             \E i \in 1..Len(timers) : timers[i] = fired'[Len(fired')].timer
       /\ \A id \in DOMAIN automations :
             automations'[id].exists =>
                 /\ automations'[id].statistics.errorCount = 0
                 /\ automations'[id].statistics.successCount =
                       automations'[id].statistics.timesTriggered
                          + Cardinality({k \in 1..Len(fired') :
                                            /\ fired'[k].executed
                                            /\ fired'[k].timer.automationId = id})
      ]_vars

\* C25 witness: the delay of a dropped action is over, nothing ran and the statistics
\* are those of the trigger
C25_Witness ==
    /\ lost # <<>>
    /\ now >= lost[1].due
    /\ timers = <<>>
    /\ fired = <<>>
    /\ \A k \in 1..Len(sent) : sent[k].text # MsgLater
    /\ automations["a1"].statistics.timesTriggered = 1
    /\ automations["a1"].statistics.successCount = 1
    /\ automations["a1"].statistics.errorCount = 0

-----------------------------------------------------------------------------
(* Claims on the Telnyx client *)

\* C29: all commands issued by one invocation of handleIncomingCall go through the
\* same client instance, also when reinitializeClient runs between two of them.
C29_OneClientPerInvocation ==
    \A i \in 1..Len(HicCommands), j \in 1..Len(HicCommands) :
        HicCommands[i].client = HicCommands[j].client

-----------------------------------------------------------------------------
(* Claims on the responses of the webhook handlers *)

\* C27: a webhook request gets exactly one response: the delegated controller sends
\* it, and no later step of the handler, its catch block included, sends to the
\* request again.
C27_ExactlyOneResponse ==
    \A i \in Hooks :
        /\ ~hooks[i].raised
        /\ hooks[i].pc \in {"lookup", "done"} => Len(hooks[i].responses) = 1

-----------------------------------------------------------------------------
(* Claims on the sends of the entry points *)

\* the actions of an automation that are sendSms, not delayed, with a literal message
ImmediateSends(id) ==
    {k \in 1..Len(automations[id].actions) :
        /\ automations[id].actions[k].type = "sendSms"
        /\ automations[id].actions[k].delay.value = 0
        /\ automations[id].actions[k].message # ""}

\* the sends the last entry point issued for an automation
SendsFor(id) == {k \in 1..Len(lastResult.sends) : lastResult.sends[k].by = id}

\* C28: when an entry point (incoming SMS, call event, scheduled time, availability
\* change) has returned, each automation it reports in triggeredAutomations has had
\* one send issued for each of its sendSms actions that is not delayed and has a
\* literal message, and each such send has a sender and a recipient.
C28_ReportedAutomationHasSent ==
    \A id \in DOMAIN automations :
        (/\ automations[id].exists
         /\ lastResult.op # "none"
         /\ TimesReported(id, lastResult.triggeredAutomations) > 0) =>
            /\ Cardinality(SendsFor(id)) = Cardinality(ImmediateSends(id))
            /\ \A k \in SendsFor(id) :
                  lastResult.sends[k].from # "" /\ lastResult.sends[k].to # ""

-----------------------------------------------------------------------------
(* Claims on the toggle endpoint *)

\* the answers of the toggle endpoint for an automation, in order
TogglesOf(id) == SelectSeq(toggles, LAMBDA r : r.id = id /\ r.code = 200)

\* the last answer of the toggle endpoint said that the automation is deactivated
ReportedDeactivated(id) ==
    /\ Len(TogglesOf(id)) > 0
    /\ TogglesOf(id)[Len(TogglesOf(id))].status = "inactive"

\* C30: while the last answer of toggleAutomationStatus reports an automation as
\* deactivated, no entry point triggers it and no timer callback executes an action
\* of it; and the status the endpoint reports is the flag the engine reads: after
\* an answered toggle, isActive of the automation is TRUE exactly if the answer
\* says 'active'.
C30_ToggleWritesTheFlagTheEngineReads ==
    [][\A id \in DOMAIN automations :
          /\ (ReportedDeactivated(id) /\ nEvents' = nEvents + 1) =>
                TimesReported(id, lastResult'.triggeredAutomations) = 0
          /\ (ReportedDeactivated(id) /\ Len(fired') = Len(fired) + 1
                /\ fired'[Len(fired')].timer.automationId = id) =>
                ~fired'[Len(fired')].executed
          /\ (Len(toggles') = Len(toggles) + 1 /\ toggles'[Len(toggles')].id = id
                /\ toggles'[Len(toggles')].code = 200) =>
                automations'[id].isActive = (toggles'[Len(toggles')].status = "active")
      ]_vars

=============================================================================
